---- MODULE Spec2Model ----
(***************************************************************************)
(* A model of rlox: the scanner (src/src/scanner.rs), the recursive        *)
(* descent parser (src/src/parser.rs), the value model (src/src/ast.rs)    *)
(* and the tree-walking interpreter (src/src/interpreter.rs).              *)
(*                                                                         *)
(* The recursive functions of the source (execute, evaluate, the parser's  *)
(* grammar functions) are RECURSIVE operators that thread the state they   *)
(* mutate; the loops that drive them (Interpreter::interpret called by the *)
(* REPL, Parser::parse, Scanner::scan_tokens) are the actions.             *)
(***************************************************************************)
EXTENDS Integers, Sequences, FiniteSets, TLC

VARIABLES
    \* ---- Interpreter (interpreter.rs:17-20) and what it wrote
    envs,        \* Interpreter.envs: the stack of scope frames, envs[1] global
    functions,   \* Interpreter.functions: name -> Function
    out,         \* lines println!-ed by the last interpret call
    errlog,      \* errors eprintln!-ed by the last interpret call
    crashed,     \* the process panicked (todo!(), expect(), overflow check)
    stmts_in,    \* the statement list handed to the last interpret call
    reached,     \* how many top-level statements that call started
    nlines,      \* how many statement lists were interpreted so far
    build,       \* "debug" | "release": integer overflow panics or wraps
    parser,      \* the Parser and the Scanner it owns
    reported,    \* the diagnostics the scanner and the parser eprintln!-ed
    printed,     \* the lines the scanner and the parser println!-ed
    load_stmts,  \* the statements of the load call under way, or it returned
    history,     \* the sources handed to load so far, in order
    pc           \* where the front end is: "idle" | "scan" | "scanned" |
                 \* "parse" | "loaded"

interpVars == <<envs, functions, out, errlog, crashed, stmts_in, reached, nlines, build>>

frontVars == <<parser, reported, printed, load_stmts, history, pc>>

vars == <<interpVars, frontVars>>

-----------------------------------------------------------------------------
(* Bounds of the model.                                                    *)

\* statement lists handed to interpret in one run of the REPL loop
MaxLines == 2
\* largest Integer literal drawn for an operand
MaxInt == 3
\* iterations after which a while loop is taken not to return
MaxIter == 6
\* nesting of calls after which a call is taken not to return
MaxDepth == 4
\* longest source drawn for the scanner, in characters
MaxSrc == 3
MaxBody == 2
MaxTokens == 3

-----------------------------------------------------------------------------
(* TokenLiteral (ast.rs:247-254): Empty | Integer | Float | String |       *)
(* Boolean.  A Float is the rational num/den in lowest terms, den > 0;     *)
(* den = 0 stands for +inf (num = 1), -inf (num = -1) and NaN (num = 0).   *)

Empty == [tag |-> "Empty"]
Integer(n) == [tag |-> "Integer", i |-> n]
String(s) == [tag |-> "String", s |-> s]
Boolean(b) == [tag |-> "Boolean", b |-> b]

Abs(n) == IF n < 0 THEN -n ELSE n
Sgn(n) == IF n < 0 THEN -1 ELSE IF n = 0 THEN 0 ELSE 1

RECURSIVE Gcd(_, _)
Gcd(a, b) == IF b = 0 THEN a ELSE Gcd(b, a % b)

Float(n, d) ==
    IF d = 0 THEN [tag |-> "Float", num |-> Sgn(n), den |-> 0]
    ELSE LET g == Gcd(Abs(n), Abs(d))
         IN  [tag |-> "Float", num |-> (Sgn(d) * n) \div g, den |-> Abs(d) \div g]

NaN == Float(0, 0)
IsNaN(f) == f.den = 0 /\ f.num = 0
IsInf(f) == f.den = 0 /\ f.num # 0

\* `n as f64`
AsFloat(n) == Float(n, 1)

\* f64 + f64
FAdd(a, b) ==
    IF IsNaN(a) \/ IsNaN(b) THEN NaN
    ELSE IF IsInf(a) /\ IsInf(b) THEN (IF a.num = b.num THEN a ELSE NaN)
    ELSE IF IsInf(a) THEN a
    ELSE IF IsInf(b) THEN b
    ELSE Float(a.num * b.den + b.num * a.den, a.den * b.den)

FNeg(a) == [tag |-> "Float", num |-> -a.num, den |-> a.den]

\* f64 - f64
FSub(a, b) == FAdd(a, FNeg(b))

\* f64 * f64
FMul(a, b) ==
    IF IsNaN(a) \/ IsNaN(b) THEN NaN
    ELSE IF IsInf(a) \/ IsInf(b) THEN Float(Sgn(a.num) * Sgn(b.num), 0)
    ELSE Float(a.num * b.num, a.den * b.den)

\* f64 / f64
FDiv(a, b) ==
    IF IsNaN(a) \/ IsNaN(b) THEN NaN
    ELSE IF IsInf(a) /\ IsInf(b) THEN NaN
    ELSE IF IsInf(a) THEN Float(a.num * (IF b.num < 0 THEN -1 ELSE 1), 0)
    ELSE IF IsInf(b) THEN Float(0, 1)
    ELSE IF b.num = 0 THEN Float(Sgn(a.num), 0)
    ELSE Float(a.num * b.den, a.den * b.num)

-----------------------------------------------------------------------------
(* Display for TokenLiteral (ast.rs:256-268).                              *)

Digit(d) == CASE d = 0 -> "0" [] d = 1 -> "1" [] d = 2 -> "2" [] d = 3 -> "3"
              [] d = 4 -> "4" [] d = 5 -> "5" [] d = 6 -> "6" [] d = 7 -> "7"
              [] d = 8 -> "8" [] d = 9 -> "9"

\* the decimal digits of rem/den after the point; f64's Display prints the
\* shortest text that reads back as the same f64, which for the short
\* terminating decimals used here is the exact expansion
RECURSIVE FracDigits(_, _, _)
FracDigits(rem, den, left) ==
    IF rem = 0 \/ left = 0 THEN ""
    ELSE Digit((rem * 10) \div den) \o FracDigits((rem * 10) % den, den, left - 1)

\* f64::to_string
FloatToString(f) ==
    IF IsNaN(f) THEN "NaN"
    ELSE IF IsInf(f) THEN (IF f.num > 0 THEN "inf" ELSE "-inf")
    ELSE LET a == Abs(f.num)
             whole == ToString(a \div f.den)
             frac == FracDigits(a % f.den, f.den, 16)
         IN  (IF f.num < 0 THEN "-" ELSE "")
             \o whole \o (IF frac = "" THEN "" ELSE "." \o frac)

\* impl Display for TokenLiteral: the text of format!("{}", v)
Display(v) ==
    CASE v.tag = "Empty" -> ""
      [] v.tag = "Integer" -> ToString(v.i)
      [] v.tag = "Float" -> FloatToString(v)
      [] v.tag = "String" -> v.s
      [] v.tag = "Boolean" -> (IF v.b THEN "true" ELSE "false")

-----------------------------------------------------------------------------
(* The result of an operator on TokenLiteral: Result<TokenLiteral,         *)
(* ParserError>, or a panic (todo!(), an overflow check of a debug build). *)
(* "unmodelled" marks a value these definitions do not compute.            *)

VOk(v) == [kind |-> "ok", v |-> v, e |-> ""]
VErr(e) == [kind |-> "err", v |-> Empty, e |-> e]
VPanic(why) == [kind |-> "panic", v |-> Empty, e |-> why]
VUnmodelled == [kind |-> "unmodelled", v |-> Empty, e |-> ""]

RECURSIVE IPow(_, _)
IPow(i, n) == IF n = 0 THEN 1 ELSE i * IPow(i, n - 1)

\* isize::pow(i, ii as u32).  A negative ii casts to 2^32 + ii, an exponent
\* of more than 64 bits' worth: 0, 1 and -1 stay in range, any other base
\* overflows, which panics in a debug build and wraps in a release build
\* (an even base wraps to 0).
isize_pow(i, ii, b) ==
    IF ii >= 0 THEN VOk(Integer(IPow(i, ii)))
    ELSE IF i = 0 THEN VOk(Integer(0))
    ELSE IF i = 1 THEN VOk(Integer(1))
    ELSE IF i = -1 THEN VOk(Integer(IF ii % 2 = 0 THEN 1 ELSE -1))
    ELSE IF b = "debug" THEN VPanic("attempt to multiply with overflow")
    ELSE IF i % 2 = 0 THEN VOk(Integer(0))
    ELSE VUnmodelled

\* f64::powi
RECURSIVE powi(_, _)
powi(f, n) ==
    IF n = 0 THEN Float(1, 1)
    ELSE IF n < 0 THEN FDiv(Float(1, 1), powi(f, -n))
    ELSE FMul(f, powi(f, n - 1))

\* f64::powf, computed for the exponents that are whole numbers
powf(f, ff) ==
    IF ff.den = 1 THEN VOk(powi(f, ff.num)) ELSE VUnmodelled

\* TokenLiteral::pow (ast.rs:271-284)
pow(self, rhs, b) ==
    CASE self.tag = "Integer" ->
            (IF rhs.tag = "Integer" THEN isize_pow(self.i, rhs.i, b) ELSE VOk(Empty))
      [] self.tag = "Float" ->
            (CASE rhs.tag = "Float" -> powf(self, rhs)
               [] rhs.tag = "Integer" -> VOk(powi(self, rhs.i))
               [] OTHER -> VOk(Empty))
      [] OTHER -> VOk(Empty)

\* a faulty is_truthy: only nil and false are falsy, zero is truthy
is_truthy_lox(self) ==
    CASE self.tag = "Empty" -> FALSE
      [] self.tag = "Boolean" -> self.b
      [] OTHER -> TRUE

\* TokenLiteral::is_truthy (ast.rs:286-294)
is_truthy(self) ==
    CASE self.tag = "Empty" -> FALSE
      [] self.tag = "Integer" -> self.i # 0
      [] self.tag = "Float" -> ~(self.num = 0 /\ self.den # 0)
      [] self.tag = "String" -> TRUE
      [] self.tag = "Boolean" -> self.b

\* f64 == f64
FEq(a, b) == ~IsNaN(a) /\ ~IsNaN(b) /\ a = b

\* a faulty is_equal: an Integer never equals a Float
is_equal_same_tag(self, rhs) == self.tag # "Empty" /\ self = rhs

\* TokenLiteral::is_equal (ast.rs:296-326)
is_equal(self, rhs) ==
    CASE self.tag = "Empty" -> FALSE
      [] self.tag = "Integer" ->
            (CASE rhs.tag = "Float" -> FEq(rhs, AsFloat(self.i))
               [] rhs.tag = "Integer" -> rhs.i = self.i
               [] OTHER -> FALSE)
      [] self.tag = "Float" ->
            (CASE rhs.tag = "Float" -> FEq(rhs, self)
               [] rhs.tag = "Integer" -> FEq(self, AsFloat(rhs.i))
               [] OTHER -> FALSE)
      [] self.tag = "String" -> (IF rhs.tag = "String" THEN self.s = rhs.s ELSE FALSE)
      [] self.tag = "Boolean" -> (IF rhs.tag = "Boolean" THEN self.b = rhs.b ELSE FALSE)

\* impl Mul for TokenLiteral (ast.rs:329-351)
mul(self, rhs) ==
    CASE self.tag = "Float" ->
            (CASE rhs.tag = "Float" -> VOk(FMul(self, rhs))
               [] rhs.tag = "Integer" -> VOk(FMul(self, AsFloat(rhs.i)))
               [] OTHER -> VPanic("not yet implemented"))
      [] self.tag = "Integer" ->
            (CASE rhs.tag = "Float" -> VOk(FMul(AsFloat(self.i), rhs))
               [] rhs.tag = "Integer" -> VOk(Integer(self.i * rhs.i))
               [] OTHER -> VPanic("not yet implemented"))
      [] OTHER -> VPanic("not yet implemented")

\* a faulty div: two Integers divide as Integers when the division is exact
div_exact(self, rhs) ==
    IF self.tag = "Integer" /\ rhs.tag = "Integer" /\ rhs.i # 0 /\ self.i % rhs.i = 0
    THEN VOk(Integer(self.i \div rhs.i))
    ELSE IF self.tag \in {"Integer", "Float"} /\ rhs.tag \in {"Integer", "Float"}
    THEN VOk(FDiv(IF self.tag = "Integer" THEN AsFloat(self.i) ELSE self,
                  IF rhs.tag = "Integer" THEN AsFloat(rhs.i) ELSE rhs))
    ELSE VPanic("not yet implemented")

\* impl Div for TokenLiteral (ast.rs:353-375)
div(self, rhs) ==
    CASE self.tag = "Float" ->
            (CASE rhs.tag = "Float" -> VOk(FDiv(self, rhs))
               [] rhs.tag = "Integer" -> VOk(FDiv(self, AsFloat(rhs.i)))
               [] OTHER -> VPanic("not yet implemented"))
      [] self.tag = "Integer" ->
            (CASE rhs.tag = "Float" -> VOk(FDiv(AsFloat(self.i), rhs))
               [] rhs.tag = "Integer" -> VOk(FDiv(AsFloat(self.i), AsFloat(rhs.i)))
               [] OTHER -> VPanic("not yet implemented"))
      [] OTHER -> VPanic("not yet implemented")

\* impl Sub for TokenLiteral (ast.rs:377-399)
sub(self, rhs) ==
    CASE self.tag = "Float" ->
            (CASE rhs.tag = "Float" -> VOk(FSub(self, rhs))
               [] rhs.tag = "Integer" -> VOk(FSub(self, AsFloat(rhs.i)))
               [] OTHER -> VPanic("not yet implemented"))
      [] self.tag = "Integer" ->
            (CASE rhs.tag = "Float" -> VOk(FSub(AsFloat(self.i), rhs))
               [] rhs.tag = "Integer" -> VOk(Integer(self.i - rhs.i))
               [] OTHER -> VPanic("not yet implemented"))
      [] OTHER -> VPanic("not yet implemented")

\* impl Add for TokenLiteral (ast.rs:401-441)
add(self, rhs) ==
    CASE self.tag = "Float" ->
            (CASE rhs.tag = "Float" -> VOk(FAdd(self, rhs))
               [] rhs.tag = "Integer" -> VOk(FAdd(self, AsFloat(rhs.i)))
               [] rhs.tag = "String" -> VOk(String(Display(self) \o rhs.s))
               [] OTHER -> VPanic("not yet implemented"))
      [] self.tag = "Integer" ->
            (CASE rhs.tag = "Float" -> VOk(FAdd(AsFloat(self.i), rhs))
               [] rhs.tag = "Integer" -> VOk(Integer(self.i + rhs.i))
               [] rhs.tag = "String" -> VOk(String(Display(self) \o rhs.s))
               [] OTHER -> VPanic("not yet implemented"))
      [] self.tag = "String" ->
            (CASE rhs.tag = "String" -> VOk(String(self.s \o rhs.s))
               [] rhs.tag = "Integer" -> VOk(String(self.s \o Display(rhs)))
               [] OTHER -> VErr("UnsupportedAction"))
      [] OTHER -> VErr("UnsupportedAction")

-----------------------------------------------------------------------------
(* Tokens (ast.rs:239-245) and the syntax tree (ast.rs:77-95, stmt.rs).    *)

Token(tt, lexeme, literal, ln) ==
    [token_type |-> tt, lexeme |-> lexeme, literal |-> literal, line |-> ln]

None == [some |-> FALSE]
Some(x) == [some |-> TRUE, x |-> x]

\* Expression
ELiteral(lit) == [kind |-> "Literal", lit |-> lit]
EGrouping(e) == [kind |-> "Grouping", e |-> e]
EUnary(op, right) == [kind |-> "Unary", operator |-> op, right |-> right]
EBinary(left, op, right) ==
    [kind |-> "Binary", left |-> left, operator |-> op, right |-> right]
EVariable(tok) == [kind |-> "Variable", tok |-> tok]
EAssign(name, value) == [kind |-> "Assign", name |-> name, value |-> value]
ELogical(left, op, right) ==
    [kind |-> "Logical", left |-> left, operator |-> op, right |-> right]
ECall(callee, paren, arguments) ==
    [kind |-> "Call", callee |-> callee, paren |-> paren, arguments |-> arguments]
EEmpty == [kind |-> "Empty"]

\* Statement
SExpression(e) == [kind |-> "Expression", expr |-> e]
SPrint(e) == [kind |-> "Print", expr |-> e]
SVar(name, initializer) == [kind |-> "Var", name |-> name, initializer |-> initializer]
SBlock(stmts) == [kind |-> "Block", stmts |-> stmts]
SIf(cond, then_branch, else_branch) ==
    [kind |-> "If", cond |-> cond, then_branch |-> then_branch,
     else_branch |-> else_branch]
SWhile(cond, body) == [kind |-> "While", cond |-> cond, body |-> body]
SFunction(name, params, body) ==
    [kind |-> "Function", name |-> name, params |-> params, body |-> body]
SReturn(keyword, value) == [kind |-> "Return", keyword |-> keyword, value |-> value]
SDump == [kind |-> "Dump"]

-----------------------------------------------------------------------------
(* Expression::evaluate (ast.rs:112-236), the evaluator of the expression  *)
(* tests: it needs no Interpreter and gives a result of the value model.   *)

\* Expression::check_number_operand (ast.rs:230-235)
check_number_operand(operand) == operand.tag \in {"Integer", "Float"}

\* Expression::evaluate (ast.rs:112-229)
RECURSIVE Expression_evaluate(_, _)
Expression_evaluate(self, b) ==
    LET \* the match on operator.token_type of Binary (ast.rs:122-201)
        of_binary(tt, left, right) ==
            CASE tt = "PLUS" -> add(left, right)
              [] tt \in {"MINUS", "SLASH", "STAR", "EXPONENT"} ->
                    (IF ~check_number_operand(right) THEN VErr("UnsupportedAction")
                     ELSE CASE tt = "MINUS" -> sub(left, right)
                            [] tt = "SLASH" -> div(left, right)
                            [] tt = "STAR" -> mul(left, right)
                            [] tt = "EXPONENT" -> pow(left, right, b))
              [] tt \in {"GREATER", "GREATER_EQUAL", "LESS", "LESS_EQUAL"} ->
                    (IF ~check_number_operand(right) THEN VErr("UnsupportedAction")
                     ELSE IF left.tag = "Integer" /\ right.tag = "Integer"
                     THEN VOk(Boolean(CASE tt = "GREATER" -> left.i > right.i
                                        [] tt = "GREATER_EQUAL" -> left.i >= right.i
                                        [] tt = "LESS" -> left.i < right.i
                                        [] tt = "LESS_EQUAL" -> left.i <= right.i))
                     ELSE VOk(Empty))
              [] tt = "BANG_EQUAL" -> VOk(Boolean(~is_equal(left, right)))
              [] tt = "EQUAL_EQUAL" -> VOk(Boolean(is_equal(left, right)))
              [] OTHER -> VPanic("not yet implemented")
        \* the match on operator.token_type of Unary (ast.rs:205-219)
        of_unary(tt, right) ==
            CASE tt = "MINUS" ->
                    (IF ~check_number_operand(right) THEN VErr("UnsupportedAction")
                     ELSE IF right.tag = "Integer" THEN VOk(Integer(-right.i))
                     ELSE VPanic("not yet implemented"))
              [] tt = "BANG" -> VOk(Boolean(~is_truthy(right)))
              [] OTHER -> VPanic("not yet implemented")
    IN  CASE self.kind = "Binary" ->
                (LET left == Expression_evaluate(self.left, b)
                     right == Expression_evaluate(self.right, b)
                 IN  IF left.kind # "ok" THEN left
                     ELSE IF right.kind # "ok" THEN right
                     ELSE of_binary(self.operator.token_type, left.v, right.v))
          [] self.kind = "Unary" ->
                (LET right == Expression_evaluate(self.right, b)
                 IN  IF right.kind # "ok" THEN right
                     ELSE of_unary(self.operator.token_type, right.v))
          [] self.kind = "Grouping" -> Expression_evaluate(self.e, b)
          [] self.kind = "Literal" -> VOk(self.lit)
          [] self.kind = "Empty" -> VOk(Empty)
          [] self.kind = "Variable" -> VOk(self.tok.literal)
          [] self.kind \in {"Assign", "Logical", "Call"} -> VErr("UnsupportedAction")

-----------------------------------------------------------------------------
(* Interpreter: the scope stack (interpreter.rs:30-53).  A frame is a      *)
(* function from the names it binds to their values.                       *)

NoFrame == [x \in {} |-> Empty]

\* a faulty insert: a key that is present keeps its entry
Insert_keep(env, k, v) ==
    [x \in (DOMAIN env) \cup {k} |-> IF x \in DOMAIN env THEN env[x] ELSE v]

\* HashMap::insert
Insert(env, k, v) == [x \in (DOMAIN env) \cup {k} |-> IF x = k THEN v ELSE env[x]]

\* a faulty define: binds in the global frame instead of the innermost one
define_global(es, name, value) ==
    IF Len(es) = 0 THEN es
    ELSE [es EXCEPT ![1] = Insert(@, name, value)]

\* Interpreter::define
define(es, name, value) ==
    IF Len(es) = 0 THEN es
    ELSE [es EXCEPT ![Len(es)] = Insert(@, name, value)]

\* the index of the innermost frame at or below i that binds name, 0 if none
RECURSIVE FrameOf(_, _, _)
FrameOf(es, i, name) ==
    IF i = 0 THEN 0
    ELSE IF name \in DOMAIN es[i] THEN i
    ELSE FrameOf(es, i - 1, name)

\* a faulty assign: always writes the innermost frame
assign_innermost(es, name, value) ==
    [es EXCEPT ![Len(es)] = Insert(@, name, value)]

\* Interpreter::assign
assign(es, name, value) ==
    LET i == FrameOf(es, Len(es), name)
    IN  IF i # 0 THEN [es EXCEPT ![i] = Insert(@, name, value)]
        ELSE [es EXCEPT ![1] = Insert(@, name, value)]

\* a faulty get: only the innermost frame and the global one are searched
get_static(es, name) ==
    IF name \in DOMAIN es[Len(es)] THEN Some(es[Len(es)][name])
    ELSE IF name \in DOMAIN es[1] THEN Some(es[1][name])
    ELSE None

\* Interpreter::get
get(es, name) ==
    LET i == FrameOf(es, Len(es), name)
    IN  IF i # 0 THEN Some(es[i][name]) ELSE None

\* a faulty lookup: a name bound in no frame is nil
evaluate_variable_nil(es, tok) ==
    LET g == get(es, tok.lexeme)
    IN  IF g.some THEN g.x ELSE Empty

\* Interpreter::evaluate, Expression::Variable (interpreter.rs:190-196)
evaluate_variable(es, tok) ==
    LET g == get(es, tok.lexeme)
    IN  IF g.some THEN g.x ELSE tok.literal

-----------------------------------------------------------------------------
(* Interpreter::execute and Interpreter::evaluate (interpreter.rs:67-242). *)
(* st is the state they mutate: [envs, functions, out].  A result is       *)
(*   kind "ok"     Ok(..): v the value of an expression, ret the pending   *)
(*                 return value of a statement;                            *)
(*   kind "err"    Err(e), passed up by every `?`;                         *)
(*   kind "panic"  the thread panicked;                                    *)
(*   kind "diverge"/"unmodelled"  the call does not return within the      *)
(*                 bounds / its value is not computed here.                *)

ROk(v, st) == [kind |-> "ok", v |-> v, ret |-> None, e |-> "", st |-> st]
RRet(ret, st) == [kind |-> "ok", v |-> Empty, ret |-> ret, e |-> "", st |-> st]
RErr(e, st) == [kind |-> "err", v |-> Empty, ret |-> None, e |-> e, st |-> st]
RStop(kind, e, st) == [kind |-> kind, v |-> Empty, ret |-> None, e |-> e, st |-> st]

\* a Result<TokenLiteral, ParserError> of the value model, through `?`
Lift(r, st) ==
    IF r.kind = "ok" THEN ROk(r.v, st) ELSE RStop(r.kind, r.e, st)

\* the Boolean of an Integer comparison, false for any other pair
\* (interpreter.rs:169-184)
compare(tt, l, r) ==
    IF l.tag = "Integer" /\ r.tag = "Integer"
    THEN CASE tt = "GREATER" -> l.i > r.i
           [] tt = "GREATER_EQUAL" -> l.i >= r.i
           [] tt = "LESS" -> l.i < r.i
           [] tt = "LESS_EQUAL" -> l.i <= r.i
    ELSE FALSE

\* the match on operator.token_type of Expression::Binary
\* (interpreter.rs:163-188)
binary(tt, l, r, st, b) ==
    CASE tt = "PLUS" -> Lift(add(l, r), st)
      [] tt = "MINUS" -> Lift(sub(l, r), st)
      [] tt = "STAR" -> Lift(mul(l, r), st)
      [] tt = "SLASH" -> Lift(div(l, r), st)
      [] tt = "EXPONENT" -> Lift(pow(l, r, b), st)
      [] tt \in {"GREATER", "GREATER_EQUAL", "LESS", "LESS_EQUAL"} ->
            ROk(Boolean(compare(tt, l, r)), st)
      [] tt = "BANG_EQUAL" -> ROk(Boolean(~is_equal(l, r)), st)
      [] tt = "EQUAL_EQUAL" -> ROk(Boolean(is_equal(l, r)), st)
      [] OTHER -> RErr("RuntimeException", st)

\* the match on operator.token_type of Expression::Unary
\* (interpreter.rs:148-158)
unary(tt, right, st) ==
    CASE tt = "MINUS" ->
            (IF right.tag = "Integer" THEN ROk(Integer(-right.i), st)
             ELSE RErr("UnsupportedAction", st))
      [] tt = "BANG" -> ROk(Boolean(~is_truthy(right)), st)
      [] OTHER -> RErr("RuntimeException", st)

\* the frame of a call: the parameters zipped with the argument values
\* (interpreter.rs:220-223)
RECURSIVE bind_params(_, _, _, _)
\* a faulty bind_params: every parameter gets the first argument
bind_params_first(es, params, args_vals, i) ==
    IF i > Len(params) \/ i > Len(args_vals) THEN es
    ELSE bind_params(define(es, params[i].lexeme, args_vals[1]), params, args_vals, i + 1)

\* a faulty bind_params: a parameter with no argument is bound to nil
bind_params_padded(es, params, args_vals, i) ==
    IF i > Len(params) THEN es
    ELSE bind_params(define(es, params[i].lexeme,
                            IF i <= Len(args_vals) THEN args_vals[i] ELSE Empty),
                     params, args_vals, i + 1)

bind_params(es, params, args_vals, i) ==
    IF i > Len(params) \/ i > Len(args_vals) THEN es
    ELSE bind_params(define(es, params[i].lexeme, args_vals[i]), params, args_vals, i + 1)

\* the `?` of the source: an Err (or a panic) ends the function with it,
\* an Ok goes on with K
Try(r, K(_)) == IF r.kind # "ok" THEN r ELSE K(r)

RECURSIVE execute(_, _, _, _)
RECURSIVE evaluate(_, _, _, _)
RECURSIVE exec_seq(_, _, _, _, _)
RECURSIVE exec_while(_, _, _, _, _, _)
RECURSIVE eval_args(_, _, _, _, _, _)

\* a faulty exec_seq: a pending return value does not stop the statements
\* that follow it
exec_seq_all(stmts, i, st, depth, b) ==
    IF i > Len(stmts) THEN RRet(None, st)
    ELSE Try(execute(stmts[i], st, depth, b),
             LAMBDA r : IF i = Len(stmts) THEN r
                        ELSE exec_seq(stmts, i + 1, r.st, depth, b))

\* `for stmt in stmts { if let Some(v) = self.execute(stmt)? { ret = v; break } }`
\* (interpreter.rs:90-95 and 225-230)
exec_seq(stmts, i, st, depth, b) ==
    IF i > Len(stmts) THEN RRet(None, st)
    ELSE Try(execute(stmts[i], st, depth, b),
             LAMBDA r : IF r.ret.some THEN r
                        ELSE exec_seq(stmts, i + 1, r.st, depth, b))

\* a faulty exec_while: the body runs once before the condition is tested
exec_while_do(cond, body, st, depth, b, fuel) ==
    Try(execute(body, st, depth, b),
        LAMBDA r :
            IF r.ret.some THEN r
            ELSE Try(evaluate(cond, r.st, depth, b),
                     LAMBDA c :
                         IF ~is_truthy(c.v) THEN RRet(None, c.st)
                         ELSE IF fuel = 0 THEN RStop("diverge", "", c.st)
                         ELSE exec_while(cond, body, c.st, depth, b, fuel - 1)))

\* `while self.evaluate(cond)?.is_truthy() { .. }` (interpreter.rs:109-114)
exec_while(cond, body, st, depth, b, fuel) ==
    Try(evaluate(cond, st, depth, b),
        LAMBDA c :
            IF ~is_truthy(c.v) THEN RRet(None, c.st)
            ELSE IF fuel = 0 THEN RStop("diverge", "", c.st)
            ELSE Try(execute(body, c.st, depth, b),
                     LAMBDA r : IF r.ret.some THEN r
                                ELSE exec_while(cond, body, r.st, depth, b, fuel - 1)))

\* `for arg in arguments { args_vals.push(self.evaluate(arg)?) }`
\* (interpreter.rs:216-219); v of the result is the vector of values
eval_args(arguments, i, acc, st, depth, b) ==
    IF i > Len(arguments) THEN ROk(acc, st)
    ELSE Try(evaluate(arguments[i], st, depth, b),
             LAMBDA r : eval_args(arguments, i + 1, Append(acc, r.v), r.st, depth, b))

\* the frames without the innermost: Vec::pop
pop(es) == SubSeq(es, 1, Len(es) - 1)

\* Interpreter::execute (interpreter.rs:67-140)
execute(statement, st, depth, b) ==
    CASE statement.kind = "Expression" ->
            Try(evaluate(statement.expr, st, depth, b),
                LAMBDA r : RRet(None, r.st))
      [] statement.kind = "Print" ->
            Try(evaluate(statement.expr, st, depth, b),
                LAMBDA r : RRet(None, [r.st EXCEPT !.out = Append(@, Display(r.v))]))
      [] statement.kind = "Var" ->
            Try(IF statement.initializer.some
                THEN evaluate(statement.initializer.x, st, depth, b)
                ELSE ROk(Empty, st),
                LAMBDA r : RRet(None, [r.st EXCEPT
                                !.envs = define(@, statement.name.lexeme, r.v)]))
      [] statement.kind = "Block" ->
            Try(exec_seq(statement.stmts, 1,
                         [st EXCEPT !.envs = Append(@, NoFrame)], depth, b),
                LAMBDA r : RRet(r.ret, [r.st EXCEPT !.envs = pop(@)]))
      [] statement.kind = "If" ->
            Try(evaluate(statement.cond, st, depth, b),
                LAMBDA c :
                    IF is_truthy(c.v) THEN execute(statement.then_branch, c.st, depth, b)
                    ELSE IF statement.else_branch.some
                         THEN execute(statement.else_branch.x, c.st, depth, b)
                    ELSE RRet(None, c.st))
      [] statement.kind = "While" ->
            exec_while(statement.cond, statement.body, st, depth, b, MaxIter)
      [] statement.kind = "Function" ->
            RRet(None, [st EXCEPT !.functions =
                    Insert(@, statement.name.lexeme,
                           [name |-> statement.name, params |-> statement.params,
                            body |-> statement.body])])
      [] statement.kind = "Return" ->
            Try(IF statement.value.some
                THEN evaluate(statement.value.x, st, depth, b)
                ELSE ROk(Empty, st),
                LAMBDA r : RRet(Some(r.v), r.st))
      [] statement.kind = "Dump" -> RRet(None, st)

\* Expression::Call with a declared function (interpreter.rs:216-232)
call(func, arguments, st, depth, b) ==
    Try(eval_args(arguments, 1, <<>>, st, depth, b),
        LAMBDA a :
            Try(exec_seq(func.body, 1,
                         [a.st EXCEPT !.envs =
                             bind_params(Append(@, NoFrame), func.params, a.v, 1)],
                         depth - 1, b),
                LAMBDA r : ROk(IF r.ret.some THEN r.ret.x ELSE Empty,
                               [r.st EXCEPT !.envs = pop(@)])))

\* a faulty returns_left: the right operand is always evaluated
returns_left_never(tt, left_val) == FALSE

\* whether Expression::Logical returns left_val without evaluating the
\* right operand (interpreter.rs:204-210)
returns_left(tt, left_val) ==
    IF tt = "OR" THEN is_truthy(left_val) ELSE ~is_truthy(left_val)

\* Interpreter::evaluate (interpreter.rs:142-242)
evaluate(expr, st, depth, b) ==
    CASE expr.kind = "Literal" -> ROk(expr.lit, st)
      [] expr.kind = "Grouping" -> evaluate(expr.e, st, depth, b)
      [] expr.kind = "Unary" ->
            Try(evaluate(expr.right, st, depth, b),
                LAMBDA r : unary(expr.operator.token_type, r.v, r.st))
      [] expr.kind = "Binary" ->
            Try(evaluate(expr.left, st, depth, b),
                LAMBDA l :
                    Try(evaluate(expr.right, l.st, depth, b),
                        LAMBDA r : binary(expr.operator.token_type, l.v, r.v, r.st, b)))
      [] expr.kind = "Variable" -> ROk(evaluate_variable(st.envs, expr.tok), st)
      [] expr.kind = "Assign" ->
            Try(evaluate(expr.value, st, depth, b),
                LAMBDA r : ROk(r.v, [r.st EXCEPT
                                !.envs = assign(@, expr.name.lexeme, r.v)]))
      [] expr.kind = "Logical" ->
            Try(evaluate(expr.left, st, depth, b),
                LAMBDA l :
                    IF returns_left(expr.operator.token_type, l.v) THEN l
                    ELSE evaluate(expr.right, l.st, depth, b))
      [] expr.kind = "Call" ->
            IF expr.callee.kind # "Variable" THEN RErr("RuntimeException", st)
            ELSE IF expr.callee.tok.lexeme \notin DOMAIN st.functions
                 THEN RErr("RuntimeException", st)
            ELSE IF depth = 0 THEN RStop("diverge", "", st)
            ELSE call(st.functions[expr.callee.tok.lexeme], expr.arguments, st, depth, b)
      [] expr.kind = "Empty" -> ROk(Empty, st)

\* impl Display for LoxError (ast.rs:45-69), for the errors evaluation raises
LoxErrorToString(e) ==
    IF e = "RuntimeException" THEN "Unhandled runtime exception"
    ELSE "Parser error: Unsupported Action"

\* Interpreter::interpret (interpreter.rs:55-61): every statement in order,
\* an Err is eprintln!-ed and the loop goes on; a panic ends the process.
\* reached counts the statements the loop started.
\* interpret_next: what the loop of interpret does with the result r of statement i
RECURSIVE interpret(_, _, _, _, _)
interpret_next(r, statements, i, errs, b) ==
    CASE r.kind = "ok" -> interpret(statements, i + 1, r.st, errs, b)
      [] r.kind = "err" ->
            interpret(statements, i + 1, r.st, Append(errs, LoxErrorToString(r.e)), b)
      [] OTHER -> [kind |-> r.kind, st |-> r.st, errs |-> errs, reached |-> i]

interpret(statements, i, st, errs, b) ==
    IF i > Len(statements)
    THEN [kind |-> "ok", st |-> st, errs |-> errs, reached |-> i - 1]
    ELSE interpret_next(execute(statements[i], st, MaxDepth, b),
                        statements, i, errs, b)

-----------------------------------------------------------------------------
(* The scanner (scanner.rs).  A Scanner is the record of the struct's      *)
(* fields (scanner.rs:4-11) with the two streams it writes: reported holds *)
(* the eprintln!-ed diagnostics, printed the println!-ed lines.  start and *)
(* current count characters from 0 as in the source; a character is a      *)
(* string of length 1.                                                     *)

\* the character 0x00 that next, peek and peek_next give at the end of input
NUL == ""

\* impl Default for Scanner (scanner.rs:13-24)
Scanner_default ==
    [had_error |-> FALSE, source |-> <<>>, start |-> 0, current |-> 0,
     line |-> 1, tokens |-> <<>>]

\* a struct together with the streams its functions write to
WithStreams(struct, rep, prn) ==
    [f \in DOMAIN struct \cup {"reported", "printed"} |->
        IF f = "reported" THEN rep ELSE IF f = "printed" THEN prn ELSE struct[f]]

\* the struct alone
Struct(rec) == [f \in DOMAIN rec \ {"reported", "printed"} |-> rec[f]]

Digits == {"0", "1", "2", "3", "4", "5", "6", "7", "8", "9"}
Letters ==
    {"a", "b", "c", "d", "e", "f", "g", "h", "i", "j", "k", "l", "m", "n", "o",
     "p", "q", "r", "s", "t", "u", "v", "w", "x", "y", "z", "A", "B", "H", "W"}

is_digit(c) == c \in Digits
is_alphabetic(c) == c \in Letters
is_alphanumeric(c) == c \in Letters \cup Digits

\* keyword_token_type (ast.rs:8-30)
keyword_token_type(ident) ==
    CASE ident = "and" -> Some("AND")
      [] ident = "class" -> Some("CLASS")
      [] ident = "else" -> Some("ELSE")
      [] ident = "false" -> Some("FALSE")
      [] ident = "for" -> Some("FOR")
      [] ident = "fun" -> Some("FUN")
      [] ident = "if" -> Some("IF")
      [] ident = "nil" -> Some("NIL")
      [] ident = "or" -> Some("OR")
      [] ident = "print" -> Some("PRINT")
      [] ident = "return" -> Some("RETURN")
      [] ident = "super" -> Some("SUPER")
      [] ident = "this" -> Some("THIS")
      [] ident = "true" -> Some("TRUE")
      [] ident = "var" -> Some("VAR")
      [] ident = "const" -> Some("CONST")
      [] ident = "while" -> Some("WHILE")
      [] ident = "dump" -> Some("DUMP")
      [] OTHER -> None

\* results of the scanner's functions: Ok(()), Err(ScanError(c)), a panic
SOk(s) == [kind |-> "ok", s |-> s]
SErr(s, c) == [kind |-> "err", s |-> s, e |-> c]
SPanic(s, why) == [kind |-> "panic", s |-> s, why |-> why]

\* `.iter().collect::<String>()`
RECURSIVE collect(_, _)
collect(chars, i) ==
    IF i > Len(chars) THEN "" ELSE chars[i] \o collect(chars, i + 1)

\* `&self.source[a..b]`: None when the range is out of order or past the end,
\* where the source panics
slice(source, a, b) ==
    IF a <= b /\ b <= Len(source)
    THEN Some(collect(SubSeq(source, a + 1, b), 1))
    ELSE None

\* Scanner::is_at_end (scanner.rs:278-280)
Scanner_is_at_end(s) == s.current >= Len(s.source)

\* Scanner::next (scanner.rs:270-276): the scanner after it
Scanner_next(s) ==
    IF s.current >= Len(s.source) THEN s ELSE [s EXCEPT !.current = @ + 1]

\* Scanner::peek (scanner.rs:282-287)
Scanner_peek(s) == IF Scanner_is_at_end(s) THEN NUL ELSE s.source[s.current + 1]

\* Scanner::peek_next (scanner.rs:289-294)
Scanner_peek_next(s) ==
    IF s.current + 1 >= Len(s.source) THEN NUL ELSE s.source[s.current + 2]

\* Scanner::report (scanner.rs:299-302)
Scanner_report(s, ln, loc, msg) ==
    [s EXCEPT !.reported = Append(@, [by |-> "scanner", line |-> ln,
                                      loc |-> loc, msg |-> msg]),
              !.had_error = TRUE]

\* Scanner::err (scanner.rs:296-298)
Scanner_err(s, ln, msg) == Scanner_report(s, ln, "", msg)

\* Scanner::consume_if_next (scanner.rs:143-152): whether it matched
matches_next(s, c) == ~Scanner_is_at_end(s) /\ s.source[s.current + 1] = c
consume_if_next(s, c) == IF matches_next(s, c) THEN [s EXCEPT !.current = @ + 1] ELSE s

\* Scanner::add_token (scanner.rs:260-268)
add_token(s, token_type, literal) ==
    LET text == slice(s.source, s.start, s.current)
    IN  IF ~text.some THEN SPanic(s, "range end index out of range")
        ELSE SOk([s EXCEPT !.tokens = Append(@, Token(token_type, text.x, literal, s.line))])

\* add_token for a token of one or two characters: two when second follows
one_or_two(s, second, two, one) ==
    IF matches_next(s, second)
    THEN add_token(consume_if_next(s, second), two, Empty)
    ELSE add_token(s, one, Empty)

\* `while self.peek().is_ascii_digit() { self.next(); }` (scanner.rs:157-159)
RECURSIVE skip_digits(_)
skip_digits(s) ==
    IF is_digit(Scanner_peek(s)) THEN skip_digits(Scanner_next(s)) ELSE s

\* str::parse of a run of digits, read from position i
RECURSIVE parse_digits(_, _, _)
parse_digits(chars, i, acc) ==
    IF i > Len(chars) THEN acc
    ELSE parse_digits(chars, i + 1,
                      acc * 10 + (CHOOSE d \in 0..9 : ToString(d) = chars[i]))

\* str::parse::<f64> of digits '.' digits
parse_float(chars) ==
    LET dot == CHOOSE i \in 1..Len(chars) : chars[i] = "."
        whole == parse_digits(SubSeq(chars, 1, dot - 1), 1, 0)
        frac == SubSeq(chars, dot + 1, Len(chars))
    IN  Float(whole * IPow(10, Len(frac)) + parse_digits(frac, 1, 0), IPow(10, Len(frac)))

\* Scanner::number (scanner.rs:154-191)
number(s) ==
    LET s1 == skip_digits(s)
        is_float == Scanner_peek(s1) = "." /\ is_digit(Scanner_peek_next(s1))
        s2 == skip_digits(IF is_float THEN Scanner_next(s1) ELSE s1)
        text == SubSeq(s2.source, s2.start + 1, s2.current)
    IN  IF is_float
        THEN add_token(s2, "NUMBER", parse_float(text))
        ELSE add_token(s2, "NUMBER", Integer(parse_digits(text, 1, 0)))

\* `while self.peek().is_alphanumeric() { self.next(); }` (scanner.rs:194-196)
RECURSIVE skip_alphanumeric(_)
skip_alphanumeric(s) ==
    IF is_alphanumeric(Scanner_peek(s)) THEN skip_alphanumeric(Scanner_next(s)) ELSE s

\* Scanner::identifier (scanner.rs:193-205)
identifier(s) ==
    LET s1 == skip_alphanumeric(s)
        ident == collect(SubSeq(s1.source, s1.start + 1, s1.current), 1)
        idm == keyword_token_type(ident)
    IN  IF idm.some THEN add_token(s1, idm.x, Empty)
        ELSE add_token(s1, "IDENTIFIER", String(ident))

\* the loop of Scanner::string (scanner.rs:208-213)
RECURSIVE skip_string(_, _)
skip_string(s, c) ==
    IF Scanner_peek(s) # c /\ ~Scanner_is_at_end(s)
    THEN skip_string(Scanner_next(IF Scanner_peek(s) = "\n"
                                  THEN [s EXCEPT !.line = @ + 1] ELSE s), c)
    ELSE s

\* Scanner::string (scanner.rs:207-225)
string(s, c) ==
    LET s1 == skip_string(s, c)
        s2 == IF Scanner_is_at_end(s1)
              THEN Scanner_err([s1 EXCEPT !.printed = Append(@, collect(s1.source, 1))],
                               s1.line, "Unterminated string")
              ELSE s1
        s3 == Scanner_next(s2)
        lit == slice(s3.source, s3.start + 1, s3.current - 1)
    IN  IF ~lit.some THEN SPanic(s3, "slice index starts after its end")
        ELSE add_token(s3, "STRING", String(lit.x))

\* the loop of Scanner::comment (scanner.rs:228-230)
RECURSIVE skip_line(_)
skip_line(s) ==
    IF Scanner_peek(s) # "\n" /\ ~Scanner_is_at_end(s) THEN skip_line(Scanner_next(s)) ELSE s

\* a faulty comment: the line is skipped and no token is made of it
comment_skip(s) == SOk(skip_line(s))

\* Scanner::comment (scanner.rs:227-239)
comment(s) ==
    LET s1 == skip_line(s)
        lit == slice(s1.source, s1.start + 2, s1.current)
    IN  IF ~lit.some THEN SPanic(s1, "slice index starts after its end")
        ELSE add_token(s1, "COMMENT", String(lit.x))

\* the loop of Scanner::block_comment (scanner.rs:242-244): it goes on only
\* at the end of input, where next does not move, so fuel bounds it
RECURSIVE skip_block(_, _)
skip_block(s, fuel) ==
    IF Scanner_peek(s) # "*" /\ Scanner_peek_next(s) = "/" /\ Scanner_is_at_end(s)
    THEN IF fuel = 0 THEN s ELSE skip_block(Scanner_next(s), fuel - 1)
    ELSE s

\* Scanner::block_comment (scanner.rs:241-258)
block_comment(s) ==
    LET s1 == skip_block(s, 1)
    IN  IF Scanner_is_at_end(s1)
        THEN SOk(Scanner_err(s1, s1.line, "Unterminated block comment!"))
        ELSE LET s2 == [s1 EXCEPT !.current = @ + 2]
                 lit == slice(s2.source, s2.start + 2, s2.current - 2)
             IN  IF ~lit.some THEN SPanic(s2, "range end index out of range")
                 ELSE add_token(s2, "BLOCK_COMMENT", String(lit.x))

\* Scanner::scan_token (scanner.rs:40-141), c the character next() gave
scan_token(s0) ==
    LET c == s0.source[s0.current + 1]
        s == Scanner_next(s0)
    IN  CASE c = "(" -> add_token(s, "LEFT_PAREN", Empty)
          [] c = ")" -> add_token(s, "RIGHT_PAREN", Empty)
          [] c = "{" -> add_token(s, "LEFT_BRACE", Empty)
          [] c = "}" -> add_token(s, "RIGHT_BRACE", Empty)
          [] c = "," -> add_token(s, "COMMA", Empty)
          [] c = "." -> add_token(s, "DOT", Empty)
          [] c = "-" -> add_token(s, "MINUS", Empty)
          [] c = "+" -> add_token(s, "PLUS", Empty)
          [] c = ";" -> add_token(s, "SEMICOLON", Empty)
          [] c = "^" -> add_token(s, "EXPONENT", Empty)
          [] c = "*" -> one_or_two(s, "*", "EXPONENT", "STAR")
          [] c = "!" -> one_or_two(s, "=", "BANG_EQUAL", "BANG")
          [] c = "=" -> one_or_two(s, "=", "EQUAL_EQUAL", "EQUAL")
          [] c = "<" -> one_or_two(s, "=", "LESS_EQUAL", "LESS")
          [] c = ">" -> one_or_two(s, "=", "GREATER_EQUAL", "GREATER")
          [] c = "/" ->
                IF matches_next(s, "/") THEN comment(consume_if_next(s, "/"))
                ELSE IF matches_next(s, "*") THEN block_comment(consume_if_next(s, "*"))
                ELSE add_token(s, "SLASH", Empty)
          [] c \in {"\"", "'"} -> string(s, c)
          [] c \in {" ", "\r", "\t"} -> SOk(s)
          [] c = "\n" -> SOk([s EXCEPT !.line = @ + 1])
          [] is_digit(c) -> number(s)
          [] is_alphabetic(c) -> identifier(s)
          [] OTHER -> SErr(Scanner_err(s, s.line, "Unexpected character: " \o c), c)

\* one turn of the loop of Scanner::scan_tokens (scanner.rs:35-36):
\* `.expect("Failed to scan token")` panics on the Err of scan_token
scan_one(s) ==
    LET r == scan_token([s EXCEPT !.start = s.current])
    IN  IF r.kind = "err" THEN SPanic(r.s, "Failed to scan token") ELSE r

\* Scanner::scan_tokens (scanner.rs:33-38)
RECURSIVE scan_tokens(_)
scan_tokens(s) ==
    IF Scanner_is_at_end(s) THEN SOk(s)
    ELSE Try(scan_one(s), LAMBDA r : scan_tokens(r.s))

\* a faulty load: scanning starts over at the beginning of the source
Scanner_load_rescan(s, source) ==
    scan_tokens([s EXCEPT !.source = @ \o source, !.current = 0])

\* Scanner::load (scanner.rs:28-31)
Scanner_load(s, source) == scan_tokens([s EXCEPT !.source = @ \o source])

-----------------------------------------------------------------------------
(* The parser (parser.rs).  A Parser is the record of the struct's fields  *)
(* (parser.rs:8-14), scanner being the Scanner it owns, with the streams   *)
(* reported and printed.  current counts tokens from 0 as in the source.   *)

\* Parser::new (parser.rs:17-22)
Parser_new ==
    [current |-> 0, line |-> 1, statements |-> <<>>, had_error |-> FALSE,
     scanner |-> Scanner_default]

\* results of the parser's functions: Ok(v) and Err(ParseError(Generic(e)))
POk(v, p) == [kind |-> "ok", v |-> v, p |-> p]
PErr(e, p) == [kind |-> "err", e |-> e, p |-> p]

\* LoxError::to_string of ParseError(Generic(e)) (ast.rs:58-60, 106)
to_string(e) == "Parser error: Generic Error(" \o e \o ")"

\* the token next, peek and peek_next make up at the end (parser.rs:473-478)
EOF_token(p) == Token("EOF", "", Empty, p.line)

\* Parser::peek (parser.rs:487-498)
peek(p) ==
    IF p.current >= Len(p.scanner.tokens) THEN EOF_token(p)
    ELSE p.scanner.tokens[p.current + 1]

\* Parser::is_at_end (parser.rs:467-469)
is_at_end(p) == peek(p).token_type = "EOF"

\* Parser::check (parser.rs:460-465)
check(p, token_type) == ~is_at_end(p) /\ peek(p).token_type = token_type

\* Parser::next (parser.rs:471-485): the parser after it; the token it
\* returns is peek(p)
next(p) == IF is_at_end(p) THEN p ELSE [p EXCEPT !.current = @ + 1]

\* Parser::previous (parser.rs:446-448)
previous(p) == p.scanner.tokens[p.current]

\* Parser::consume_if_type (parser.rs:450-458): whether a type matches; the
\* parser after a match is next(p) and previous() is then peek(p)
consume_if_type(p, token_types) == \E token_type \in token_types : check(p, token_type)

\* Parser::report (parser.rs:562-564)
report(p, ln, loc, msg) ==
    [p EXCEPT !.reported = Append(@, [by |-> "parser", line |-> ln,
                                      loc |-> loc, msg |-> msg])]

\* the token types at which synchronize stops (parser.rs:547-554)
Boundary == {"CLASS", "FUN", "VAR", "FOR", "IF", "WHILE", "PRINT", "RETURN"}

\* the loop of Parser::synchronize (parser.rs:541-559)
RECURSIVE synchronize_loop(_)
synchronize_loop(p) ==
    IF is_at_end(p) THEN p
    ELSE LET p1 == [p EXCEPT !.printed = Append(@, "Skipping " \o peek(p).token_type)]
         IN  IF previous(p1).token_type = "SEMICOLON" THEN p1
             ELSE IF peek(p1).token_type \in Boundary THEN p1
             ELSE synchronize_loop(next(p1))

\* a faulty synchronize: no token is discarded
synchronize_stay(p) == p

\* Parser::synchronize (parser.rs:539-560)
synchronize(p) == synchronize_loop(next(p))

\* Parser::err (parser.rs:525-537)
err(p, token, msg) ==
    synchronize(report([p EXCEPT !.had_error = TRUE], token.line,
                       IF token.token_type = "EOF" THEN "at end"
                       ELSE "at '" \o token.lexeme \o "'",
                       msg))

\* Parser::consume (parser.rs:513-523)
consume(p, token_type, err_msg) ==
    IF check(p, token_type) THEN POk(peek(p), next(p))
    ELSE PErr(err_msg, err(p, peek(p), err_msg))

\* the descent into the rule of the grammar called name: "expression",
\* "statement" or "declaration"
RECURSIVE descend(_, _)

\* Parser::primary (parser.rs:410-444)
primary(p) ==
    CASE check(p, "FALSE") -> POk(ELiteral(Boolean(FALSE)), next(p))
      [] check(p, "TRUE") -> POk(ELiteral(Boolean(TRUE)), next(p))
      [] check(p, "NIL") -> POk(ELiteral(Empty), next(p))
      [] consume_if_type(p, {"NUMBER", "STRING"}) -> POk(ELiteral(peek(p).literal), next(p))
      [] check(p, "LEFT_PAREN") ->
            Try(descend("expression", next(p)), LAMBDA r :
            Try(consume(r.p, "RIGHT_PAREN", "Expected ')' after expression."), LAMBDA c :
            POk(EGrouping(r.v), c.p)))
      [] peek(p).token_type = "IDENTIFIER" -> POk(EVariable(peek(p)), next(p))
      [] OTHER -> PErr("Expression Expected", p)

\* the loop of Parser::finish_call (parser.rs:380-385)
RECURSIVE arguments_loop(_, _)
arguments_loop(p, arguments) ==
    Try(descend("expression", p), LAMBDA r :
    IF check(r.p, "COMMA") THEN arguments_loop(next(r.p), Append(arguments, r.v))
    ELSE POk(Append(arguments, r.v), r.p))

\* Parser::finish_call (parser.rs:377-396)
finish_call(p, callee) ==
    Try(IF ~check(p, "RIGHT_PAREN") THEN arguments_loop(p, <<>>) ELSE POk(<<>>, p),
        LAMBDA a :
    Try(consume(a.p, "RIGHT_PAREN", "Expect ')' after arguments."), LAMBDA paren :
    POk(ECall(callee, paren.v, a.v), paren.p)))

\* the loop of Parser::call (parser.rs:400-406)
RECURSIVE call_loop(_, _)
call_loop(p, expr) ==
    IF check(p, "LEFT_PAREN")
    THEN Try(finish_call(next(p), expr), LAMBDA r : call_loop(r.p, r.v))
    ELSE POk(expr, p)

\* Parser::call (parser.rs:398-408)
Parser_call(p) == Try(primary(p), LAMBDA r : call_loop(r.p, r.v))

\* Parser::unary (parser.rs:364-375)
RECURSIVE Parser_unary(_)
Parser_unary(p) ==
    IF consume_if_type(p, {"BANG", "MINUS"})
    THEN Try(Parser_unary(next(p)), LAMBDA r : POk(EUnary(peek(p), r.v), r.p))
    ELSE Parser_call(p)

\* the six left-associative levels or, and, equality, comparison, term,
\* factor (parser.rs:263-362), numbered 1..6 from the loosest: the operator
\* types each level consumes
LevelTypes(level) ==
    CASE level = 1 -> {"OR"}
      [] level = 2 -> {"AND"}
      [] level = 3 -> {"BANG_EQUAL", "EQUAL_EQUAL"}
      [] level = 4 -> {"GREATER", "GREATER_EQUAL", "LESS", "LESS_EQUAL"}
      [] level = 5 -> {"MINUS", "PLUS"}
      [] level = 6 -> {"SLASH", "STAR", "EXPONENT"}

\* the expression a level builds: Logical for or and and, Binary below
LevelNode(level, left, operator, right) ==
    IF level <= 2 THEN ELogical(left, operator, right)
    ELSE EBinary(left, operator, right)

RECURSIVE level_operand(_, _)
RECURSIVE level_loop(_, _, _)

\* `let mut expr = self.<next level>()?; while ... { ... }; Ok(expr)`
binary_level(level, p) ==
    Try(level_operand(level, p), LAMBDA r : level_loop(level, r.p, r.v))

\* the operand of a level: the next tighter level, unary below factor
level_operand(level, p) ==
    IF level = 6 THEN Parser_unary(p) ELSE binary_level(level + 1, p)

\* `while self.consume_if_type(&[..]) { operator = previous(); right = ..?; }`
level_loop(level, p, expr) ==
    IF consume_if_type(p, LevelTypes(level))
    THEN Try(level_operand(level, next(p)), LAMBDA r :
             level_loop(level, r.p, LevelNode(level, expr, peek(p), r.v)))
    ELSE POk(expr, p)

\* Parser::or (parser.rs:263-277), the entry of the levels
or(p) == binary_level(1, p)

\* Parser::assignment (parser.rs:246-261)
RECURSIVE assignment(_)
assignment(p) ==
    Try(or(p), LAMBDA r :
    IF check(r.p, "EQUAL")
    THEN Try(assignment(next(r.p)), LAMBDA value :
             IF r.v.kind = "Variable" THEN POk(EAssign(r.v.tok, value.v), value.p)
             ELSE PErr("Invalid assignment target.", value.p))
    ELSE r)

\* Parser::expression (parser.rs:242-244)
expression(p) == assignment(p)

\* Parser::expression_statement (parser.rs:233-240)
expression_statement(p) ==
    Try(descend("expression", p), LAMBDA r :
    Try(consume(r.p, "SEMICOLON", "Expected ';' after expression."), LAMBDA c :
    POk(SExpression(r.v), c.p)))

\* Parser::dump_statement (parser.rs:68-72)
dump_statement(p) ==
    Try(consume(p, "SEMICOLON", "Expected ; after dump statement."), LAMBDA c :
    POk(SDump, c.p))

\* the end of Parser::var_declaration (parser.rs:80-88): a missing ';' is
\* reported by consume and then once more here
var_declaration_end(p, name, initializer) ==
    LET c == consume(p, "SEMICOLON", "Expected ';' after variale declaration.")
    IN  IF c.kind = "err"
        THEN PErr(c.e, err(c.p, peek(c.p), to_string(c.e)))
        ELSE POk(SVar(name, initializer), c.p)

\* Parser::var_declaration (parser.rs:74-89): `.ok()` drops the error of the
\* initializer and keeps what the parser consumed
var_declaration(p) ==
    Try(consume(p, "IDENTIFIER", "Expected variable name"), LAMBDA name :
    IF check(name.p, "EQUAL")
    THEN LET r == descend("expression", next(name.p))
         IN  var_declaration_end(r.p, name.v, IF r.kind = "ok" THEN Some(r.v) ELSE None)
    ELSE var_declaration_end(name.p, name.v, None))

\* Parser::print_statement (parser.rs:113-128)
print_statement(p) ==
    IF peek(p).token_type = "IDENTIFIER"
    THEN Try(consume(next(p), "SEMICOLON", "Expected ';' after expression."), LAMBDA c :
         POk(SPrint(EVariable(peek(p))), c.p))
    ELSE Try(descend("expression", p), LAMBDA r :
         Try(consume(r.p, "SEMICOLON", "Expected ';' after expression."), LAMBDA c :
         POk(SPrint(r.v), c.p)))

\* the loop of Parser::block (parser.rs:132-134)
RECURSIVE block_loop(_, _)
block_loop(p, statements) ==
    IF ~check(p, "RIGHT_BRACE") /\ ~is_at_end(p)
    THEN Try(descend("declaration", p), LAMBDA r : block_loop(r.p, Append(statements, r.v)))
    ELSE POk(statements, p)

\* Parser::block (parser.rs:130-140)
block(p) ==
    Try(block_loop(p, <<>>), LAMBDA r :
    Try(consume(r.p, "RIGHT_BRACE", "Expected '}' after block."), LAMBDA c :
    POk(r.v, c.p)))

\* Parser::if_statement (parser.rs:142-153)
if_statement(p) ==
    Try(consume(p, "LEFT_PAREN", "Expect '(' after 'if'."), LAMBDA l :
    Try(descend("expression", l.p), LAMBDA condition :
    Try(consume(condition.p, "RIGHT_PAREN", "Expect ')' after if condition."), LAMBDA r :
    Try(descend("statement", r.p), LAMBDA then_branch :
    IF check(then_branch.p, "ELSE")
    THEN Try(descend("statement", next(then_branch.p)), LAMBDA else_branch :
             POk(SIf(condition.v, then_branch.v, Some(else_branch.v)), else_branch.p))
    ELSE POk(SIf(condition.v, then_branch.v, None), then_branch.p)))))

\* Parser::while_statement (parser.rs:155-161)
while_statement(p) ==
    Try(consume(p, "LEFT_PAREN", "Expect '(' after 'while'."), LAMBDA l :
    Try(descend("expression", l.p), LAMBDA condition :
    Try(consume(condition.p, "RIGHT_PAREN", "Expect ')' after condition."), LAMBDA r :
    Try(descend("statement", r.p), LAMBDA body :
    POk(SWhile(condition.v, body.v), body.p)))))

\* an optional expression in front of token_type (parser.rs:172-176, 178-182,
\* 198-202)
optional_expression(p, token_type) ==
    IF ~check(p, token_type)
    THEN Try(descend("expression", p), LAMBDA r : POk(Some(r.v), r.p))
    ELSE POk(None, p)

\* the initializer of Parser::for_statement (parser.rs:165-171)
for_initializer(p) ==
    IF check(p, "SEMICOLON") THEN POk(None, next(p))
    ELSE IF check(p, "VAR")
    THEN Try(var_declaration(next(p)), LAMBDA r : POk(Some(r.v), r.p))
    ELSE Try(expression_statement(p), LAMBDA r : POk(Some(r.v), r.p))

\* a faulty for_desugar: the increment runs before the body
for_desugar_incr_first(initializer, condition, increment, body) ==
    LET body1 == IF increment.some
                 THEN SBlock(<< SExpression(increment.x), body >>) ELSE body
        cond == IF condition.some THEN condition.x ELSE ELiteral(Boolean(TRUE))
        body2 == SWhile(cond, body1)
    IN  IF initializer.some THEN SBlock(<< initializer.x, body2 >>) ELSE body2

\* the statement Parser::for_statement builds (parser.rs:185-193)
for_desugar(initializer, condition, increment, body) ==
    LET body1 == IF increment.some
                 THEN SBlock(<< body, SExpression(increment.x) >>) ELSE body
        cond == IF condition.some THEN condition.x ELSE ELiteral(Boolean(TRUE))
        body2 == SWhile(cond, body1)
    IN  IF initializer.some THEN SBlock(<< initializer.x, body2 >>) ELSE body2

\* Parser::for_statement (parser.rs:163-194)
for_statement(p) ==
    Try(consume(p, "LEFT_PAREN", "Expect '(' after 'for'."), LAMBDA l :
    Try(for_initializer(l.p), LAMBDA initializer :
    Try(optional_expression(initializer.p, "SEMICOLON"), LAMBDA condition :
    Try(consume(condition.p, "SEMICOLON", "Expect ';' after loop condition."), LAMBDA s :
    Try(optional_expression(s.p, "RIGHT_PAREN"), LAMBDA increment :
    Try(consume(increment.p, "RIGHT_PAREN", "Expect ')' after for clauses."), LAMBDA r :
    Try(descend("statement", r.p), LAMBDA body :
    POk(for_desugar(initializer.v, condition.v, increment.v, body.v), body.p))))))))

\* Parser::return_statement (parser.rs:196-208), keyword the `return` token
return_statement(p, keyword) ==
    Try(optional_expression(p, "SEMICOLON"), LAMBDA value :
    Try(consume(value.p, "SEMICOLON", "Expect ';' after return value."), LAMBDA c :
    POk(SReturn(keyword, value.v), c.p)))

\* the loop of Parser::function (parser.rs:218-225)
RECURSIVE parameters_loop(_, _)
parameters_loop(p, parameters) ==
    Try(consume(p, "IDENTIFIER", "Expect parameter name."), LAMBDA r :
    IF check(r.p, "COMMA") THEN parameters_loop(next(r.p), Append(parameters, r.v))
    ELSE POk(Append(parameters, r.v), r.p))

\* Parser::function (parser.rs:210-231)
function(p) ==
    Try(consume(p, "IDENTIFIER", "Expect function name."), LAMBDA name :
    Try(consume(name.p, "LEFT_PAREN", "Expect '(' after function name."), LAMBDA l :
    Try(IF ~check(l.p, "RIGHT_PAREN") THEN parameters_loop(l.p, <<>>) ELSE POk(<<>>, l.p),
        LAMBDA parameters :
    Try(consume(parameters.p, "RIGHT_PAREN", "Expect ')' after parameters."), LAMBDA r :
    Try(consume(r.p, "LEFT_BRACE", "Expect '{' before function body."), LAMBDA b :
    Try(block(b.p), LAMBDA body :
    POk(SFunction(name.v, parameters.v, body.v), body.p)))))))

\* Parser::statement (parser.rs:91-111)
statement(p) ==
    CASE check(p, "PRINT") -> print_statement(next(p))
      [] check(p, "LEFT_BRACE") ->
            Try(block(next(p)), LAMBDA r : POk(SBlock(r.v), r.p))
      [] check(p, "IF") -> if_statement(next(p))
      [] check(p, "WHILE") -> while_statement(next(p))
      [] check(p, "FOR") -> for_statement(next(p))
      [] check(p, "RETURN") -> return_statement(next(p), peek(p))
      [] OTHER -> expression_statement(p)

\* Parser::declaration (parser.rs:57-66)
declaration(p) ==
    CASE check(p, "FUN") -> function(next(p))
      [] check(p, "VAR") -> var_declaration(next(p))
      [] check(p, "DUMP") -> dump_statement(next(p))
      [] OTHER -> descend("statement", p)

descend(name, p) ==
    CASE name = "expression" -> expression(p)
      [] name = "statement" -> statement(p)
      [] name = "declaration" -> declaration(p)

\* one turn of the loop of Parser::parse (parser.rs:44-52): the statements
\* collected so far and the parser after it
parse_one(p, statements) ==
    LET r == descend("declaration", p)
    IN  IF r.kind = "ok" THEN [statements |-> Append(statements, r.v), p |-> r.p]
        ELSE [statements |-> statements, p |-> err(r.p, peek(r.p), to_string(r.e))]

\* Parser::parse (parser.rs:41-55)
RECURSIVE parse(_, _)
parse(p, statements) ==
    IF is_at_end(p) THEN POk(statements, p)
    ELSE LET r == parse_one(p, statements) IN parse(r.p, r.statements)

\* Parser::load (parser.rs:24-29); the panic of the scanner goes through
load(p, source) ==
    LET s == Scanner_load(WithStreams(p.scanner, p.reported, p.printed), source)
        p1 == [p EXCEPT !.scanner = Struct(s.s), !.reported = s.s.reported,
                        !.printed = s.s.printed]
    IN  IF s.kind # "ok" THEN [kind |-> "panic", p |-> p1]
        ELSE Try(parse(p1, <<>>), LAMBDA r :
                 POk(r.v, [r.p EXCEPT !.statements = @ \o r.v]))

-----------------------------------------------------------------------------
(* Source fragments, as the statement lists the parser returns for them.   *)

Id(n) == Token("IDENTIFIER", n, String(n), 1)
Op(tt) == Token(tt, tt, Empty, 1)
V(n) == EVariable(Id(n))
Num(k) == ELiteral(Integer(k))
Str(t) == ELiteral(String(t))
Bin(l, tt, r) == EBinary(l, Op(tt), r)
Call(f, args) == ECall(V(f), Op("RIGHT_PAREN"), args)
Set(n, e) == SExpression(EAssign(Id(n), e))
Return(e) == SReturn(Op("RETURN"), Some(e))

\* a statement that ends in a runtime failure: `1 - 'a';` `1 + true;`
\* `nofn();` `-'a';`
Failing ==
    { SExpression(Bin(Num(1), "MINUS", Str("a"))),
      SExpression(Bin(Num(1), "PLUS", ELiteral(Boolean(TRUE)))),
      SExpression(Call("nofn", <<>>)),
      SExpression(EUnary(Op("MINUS"), Str("a"))) }

\* `<failing> print 1;`
L_fail(f) == << f, SPrint(Num(1)) >>

\* `{ var x = 1; nofn(); } print x;`
L_leak_block ==
    << SBlock(<< SVar(Id("x"), Some(Num(1))), SExpression(Call("nofn", <<>>)) >>),
       SPrint(V("x")) >>

\* `fun f(p) { nofn(); } f(1); print p;`
L_leak_call ==
    << SFunction(Id("f"), << Id("p") >>, << SExpression(Call("nofn", <<>>)) >>),
       SExpression(Call("f", << Num(1) >>)),
       SPrint(V("p")) >>

\* `var x = 0; { var x = 1; nofn(); }`
L_leak_shadow ==
    << SVar(Id("x"), Some(Num(0))),
       SBlock(<< SVar(Id("x"), Some(Num(1))), SExpression(Call("nofn", <<>>)) >>) >>

\* `var a = 0; while (a < n) { a = a + 1; }`
L_while(n) ==
    << SVar(Id("a"), Some(Num(0))),
       SWhile(Bin(V("a"), "LESS", Num(n)),
              SBlock(<< Set("a", Bin(V("a"), "PLUS", Num(1))) >>)) >>

\* `var a = 0; while (a < n) { a = a + 1; print a; }`
L_while_out(n) ==
    << SVar(Id("a"), Some(Num(0))),
       SWhile(Bin(V("a"), "LESS", Num(n)),
              SBlock(<< Set("a", Bin(V("a"), "PLUS", Num(1))), SPrint(V("a")) >>)) >>

\* `name = v;`
L_assign(name, v) == << Set(name, Num(v)) >>

\* `var name = v;`
L_var(name, v) == << SVar(Id(name), Some(Num(v))) >>

\* `{ { y = 5; } }`
L_implicit == << SBlock(<< SBlock(<< Set("y", Num(5)) >>) >>) >>

\* `{ var x = 1; var w = 4; { var x = 2; x = 3; print x; } print x; print w; }`
L_nested_assign ==
    << SBlock(<< SVar(Id("x"), Some(Num(1))), SVar(Id("w"), Some(Num(4))),
                 SBlock(<< SVar(Id("x"), Some(Num(2))), Set("x", Num(3)),
                           SPrint(V("x")) >>),
                 SPrint(V("x")), SPrint(V("w")) >>) >>

\* `{ var x = 2; print x; } print x;`
L_var_block ==
    << SBlock(<< SVar(Id("x"), Some(Num(2))), SPrint(V("x")) >>), SPrint(V("x")) >>

\* `fun add(a, b) { return a + b; } var r = add(x, y);`
L_add(x, y) ==
    << SFunction(Id("add"), << Id("a"), Id("b") >>,
                 << Return(Bin(V("a"), "PLUS", V("b"))) >>),
       SVar(Id("r"), Some(Call("add", << Num(x), Num(y) >>))) >>

\* `fun g(p) { print p; return p; }`
\* `fun f(a, b) { print a; print b; { return a; } print 9; return b; }`
\* `var r = f(g(1), g(2));`
L_order ==
    << SFunction(Id("g"), << Id("p") >>, << SPrint(V("p")), Return(V("p")) >>),
       SFunction(Id("f"), << Id("a"), Id("b") >>,
                 << SPrint(V("a")), SPrint(V("b")), SBlock(<< Return(V("a")) >>),
                    SPrint(Num(9)), Return(V("b")) >>),
       SVar(Id("r"), Some(Call("f", << Call("g", << Num(1) >>),
                                       Call("g", << Num(2) >>) >>))) >>

\* `var a = 7; fun id(a) { return a; } var r = id(a + 1); print a;`
L_caller_scope ==
    << SVar(Id("a"), Some(Num(7))),
       SFunction(Id("id"), << Id("a") >>, << Return(V("a")) >>),
       SVar(Id("r"), Some(Call("id", << Bin(V("a"), "PLUS", Num(1)) >>))),
       SPrint(V("a")) >>

\* `fun n(a) { print a; } var r = n(2);`
L_noreturn ==
    << SFunction(Id("n"), << Id("a") >>, << SPrint(V("a")) >>),
       SVar(Id("r"), Some(Call("n", << Num(2) >>))) >>

\* `fun h(a) { print a; return a; }`
L_decl_only ==
    << SFunction(Id("h"), << Id("a") >>, << SPrint(V("a")), Return(V("a")) >>) >>

\* `var r = l <op> r;` for two literals
L_binary(tt, l, r) == << SVar(Id("r"), Some(Bin(ELiteral(l), tt, ELiteral(r)))) >>

\* `var r = a + b + c;`: `+` associates to the left (parser.rs:332-346)
L_chain(a, b, c) ==
    << SVar(Id("r"), Some(Bin(Bin(ELiteral(a), "PLUS", ELiteral(b)), "PLUS",
                               ELiteral(c)))) >>

\* the literals drawn as operands: Integers, the Floats 0.0, 0.5, 1.0 and
\* 1.5, Strings, Booleans and nil
Operands ==
    { Integer(n) : n \in 0..MaxInt }
    \cup { Float(0, 1), Float(1, 2), Float(1, 1), Float(3, 2) }
    \cup { String("a"), String("") }
    \cup { Boolean(TRUE), Boolean(FALSE), Empty }

Arithmetic == { "PLUS", "MINUS", "STAR", "SLASH", "EXPONENT" }

Comparisons == { "GREATER", "GREATER_EQUAL", "LESS", "LESS_EQUAL" }

Equalities == { "EQUAL_EQUAL", "BANG_EQUAL" }

\* the binary operators of Expression::Binary (interpreter.rs:163-186)
Operators == Arithmetic \cup Comparisons \cup Equalities

\* `var r = !v;`
L_not(v) == << SVar(Id("r"), Some(EUnary(Op("BANG"), ELiteral(v)))) >>

\* `if (v) print 1; else print 2;`
L_if(v) == << SIf(ELiteral(v), SPrint(Num(1)), Some(SPrint(Num(2)))) >>

\* `var c = v; while (c) { print 1; c = nil; }`
L_while_once(v) ==
    << SVar(Id("c"), Some(ELiteral(v))),
       SWhile(V("c"), SBlock(<< SPrint(Num(1)), Set("c", ELiteral(Empty)) >>)) >>

\* `var r = a ** -b;`: the exponent is the unary minus of a literal
\* (parser.rs:351-353, 364-371)
L_pow_neg(a, b) ==
    << SVar(Id("r"), Some(Bin(Num(a), "EXPONENT", EUnary(Op("MINUS"), Num(b))))) >>

\* `var t = 'unset'; var r = l <op> (t = r);` for `or` and `and`
L_logical(tt, l, r) ==
    << SVar(Id("t"), Some(Str("unset"))),
       SVar(Id("r"), Some(ELogical(ELiteral(l), Op(tt),
                                   EGrouping(EAssign(Id("t"), ELiteral(r)))))) >>

\* `fun s() { print 9; return 2; } var r = l <op> s();`
L_logical_call(tt, l) ==
    << SFunction(Id("s"), <<>>, << SPrint(Num(9)), Return(Num(2)) >>),
       SVar(Id("r"), Some(ELogical(ELiteral(l), Op(tt), Call("s", <<>>)))) >>

\* the chains of the tests str_concat and str_plus_num
Chains ==
    { L_chain(String("Hello"), String(" "), String("World!")),
      L_chain(Integer(1), String("Hello"), Integer(5)) }

\* the fragments a run may feed to the interpreter
Lines ==
    { L_fail(f) : f \in Failing }
    \cup { L_leak_block, L_leak_call, L_leak_shadow }
    \cup { L_while(n) : n \in 0..MaxInt }
    \cup { L_while_out(n) : n \in 0..MaxInt }
    \cup { L_assign(name, 7) : name \in {"x", "y"} }
    \cup { L_var("x", 0), L_implicit, L_nested_assign, L_var_block }
    \cup { L_add(x, y) : x \in 0..1, y \in 1..2 }
    \cup { L_order, L_caller_scope, L_noreturn, L_decl_only }

-----------------------------------------------------------------------------
(* The interpreter as run_repl drives it (main.rs:41-62): one Interpreter, *)
(* Interpreter::new() (interpreter.rs:23-28), then one interpret call per  *)
(* fragment read.                                                          *)

Init ==
    /\ envs = << NoFrame >>
    /\ functions = NoFrame
    /\ out = <<>>
    /\ errlog = <<>>
    /\ crashed = FALSE
    /\ stmts_in = <<>>
    /\ reached = 0
    /\ nlines = 0
    /\ build \in {"debug", "release"}
    /\ parser = Parser_new
    /\ reported = <<>>
    /\ printed = <<>>
    /\ load_stmts = <<>>
    /\ history = <<>>
    /\ pc = "idle"

\* Interpreter::interpret on a statement list: the whole loop over the list
InterpretCall(statements) ==
    /\ ~crashed
    /\ nlines < MaxLines
    /\ LET r == interpret(statements, 1, [envs |-> envs, functions |-> functions,
                                           out |-> <<>>], <<>>, build)
       IN  /\ r.kind \in {"ok", "panic"}
           /\ envs' = r.st.envs
           /\ functions' = r.st.functions
           /\ out' = r.st.out
           /\ errlog' = r.errs
           /\ crashed' = (r.kind = "panic")
           /\ reached' = r.reached
    /\ stmts_in' = statements
    /\ nlines' = nlines + 1
    /\ UNCHANGED build

\* interpreter.interpret(expr) (main.rs:53) on the statements of a line
Interpret(statements) == InterpretCall(statements) /\ UNCHANGED frontVars

Next == \E statements \in Lines : Interpret(statements)

Spec == Init /\ [][Next]_vars

-----------------------------------------------------------------------------
(* The value model on its own: one expression statement evaluated by a     *)
(* fresh Interpreter, as the tests of tests/interpreter.rs do.             *)

\* interpret of `var r = l <op> r;`
EvaluateBinary(tt, l, r) == nlines = 0 /\ Interpret(L_binary(tt, l, r))

\* interpret of `var r = a + b + c;`
EvaluateChain(statements) == nlines = 0 /\ Interpret(statements)

\* interpret of `var r = !v;`
EvaluateNot(v) == nlines = 0 /\ Interpret(L_not(v))

\* interpret of `if (v) print 1; else print 2;`
ExecuteIf(v) == nlines = 0 /\ Interpret(L_if(v))

\* interpret of `var c = v; while (c) { print 1; c = nil; }`
ExecuteWhile(v) == nlines = 0 /\ Interpret(L_while_once(v))

\* interpret of `var r = a ** -b;`
EvaluateNegPow(a, b) == nlines = 0 /\ Interpret(L_pow_neg(a, b))

\* interpret of `var t = 'unset'; var r = l <op> (t = r);`
EvaluateLogical(tt, l, r) == nlines = 0 /\ Interpret(L_logical(tt, l, r))

\* interpret of `fun s() { print 9; return 2; } var r = l <op> s();`
EvaluateLogicalCall(tt, l) == nlines = 0 /\ Interpret(L_logical_call(tt, l))

NextValue ==
    \/ \E tt \in Operators, l \in Operands, r \in Operands : EvaluateBinary(tt, l, r)
    \/ \E statements \in Chains : EvaluateChain(statements)
    \/ \E a \in 0..MaxInt, b \in 1..MaxInt : EvaluateNegPow(a, b)
    \/ \E v \in Operands : EvaluateNot(v)

SpecValue == Init /\ [][NextValue]_vars

\* the same fresh Interpreter on the lines whose course depends on the
\* truthiness of a value: `!`, `if`, `while`, `or` and `and`
NextTruth ==
    \/ \E v \in Operands : EvaluateNot(v)
    \/ \E v \in Operands : ExecuteIf(v)
    \/ \E v \in Operands : ExecuteWhile(v)
    \/ \E tt \in {"OR", "AND"}, l \in Operands, r \in Operands : EvaluateLogical(tt, l, r)
    \/ \E tt \in {"OR", "AND"}, l \in Operands : EvaluateLogicalCall(tt, l)

SpecTruth == Init /\ [][NextTruth]_vars

-----------------------------------------------------------------------------
(* The scanner on its own, as tests/scanner.rs drives it: Scanner::default *)
(* and one load, a turn of the loop of scan_tokens being a step.           *)

\* the characters the sources are made of
Alphabet == {"a", "1", ".", "+", "=", "@", " ", "'", "\"", "/", "*", "\n"}

\* every source of 1..MaxSrc characters
Sources == UNION { [1..n -> Alphabet] : n \in 1..MaxSrc }

\* Scanner::load (scanner.rs:28-29): the source is appended
ScannerLoad(source) ==
    /\ pc = "idle" /\ nlines = 0
    /\ parser' = [parser EXCEPT !.scanner.source = @ \o source]
    /\ history' = Append(history, source)
    /\ pc' = "scan"
    /\ nlines' = nlines + 1
    /\ UNCHANGED <<envs, functions, out, errlog, crashed, stmts_in, reached, build,
                   reported, printed, load_stmts>>

\* one turn of the loop of scan_tokens (scanner.rs:34-37)
ScanToken ==
    /\ pc = "scan" /\ ~crashed
    /\ ~Scanner_is_at_end(parser.scanner)
    /\ LET r == scan_one(WithStreams(parser.scanner, reported, printed))
       IN  /\ parser' = [parser EXCEPT !.scanner = Struct(r.s)]
           /\ reported' = r.s.reported
           /\ printed' = r.s.printed
           /\ crashed' = (r.kind = "panic")
    /\ UNCHANGED <<envs, functions, out, errlog, stmts_in, reached, nlines, build,
                   load_stmts, history, pc>>

\* the loop of scan_tokens ends and load returns (scanner.rs:34, 38)
ScannerReturn ==
    /\ pc = "scan" /\ ~crashed
    /\ Scanner_is_at_end(parser.scanner)
    /\ pc' = "scanned"
    /\ UNCHANGED <<interpVars, parser, reported, printed, load_stmts, history>>

NextScan ==
    \/ pc = "idle" /\ \E source \in Sources : ScannerLoad(source)
    \/ ScanToken
    \/ ScannerReturn

SpecScan == Init /\ [][NextScan]_vars

-----------------------------------------------------------------------------
(* The front end as run_repl drives it (main.rs:41-62): Parser::load on a  *)
(* line, a turn of the loop of parse being a step, then interpret on the   *)
(* statements load returned.                                               *)

\* the characters of words, a space between two words
RECURSIVE Join(_, _)
Join(words, i) ==
    IF i > Len(words) THEN <<>>
    ELSE IF i = Len(words) THEN words[i]
    ELSE words[i] \o <<" ">> \o Join(words, i + 1)

w_print == << <<"p", "r", "i", "n", "t">> >>
w_var == << <<"v", "a", "r">> >>
w(c) == << <<c>> >>

\* one malformed statement: `print 1` `var x = 1` `( 1 ;` `var = 1 ;`
\* `1 + ;` `x = ;` `+ ;`
MissingToken ==
    { w_print \o w("1"),
      w_var \o w("x") \o w("=") \o w("1"),
      w("(") \o w("1") \o w(";"),
      w_var \o w("=") \o w("1") \o w(";") }
MissingExpression ==
    { w("1") \o w("+") \o w(";"),
      w("x") \o w("=") \o w(";"),
      w("+") \o w(";") }
Malformed == MissingToken \cup MissingExpression

\* a well-formed print statement: `print 2 ;` `print x ;` `print 1 + 2 ;`
WellFormedPrint ==
    { w_print \o w("2") \o w(";"),
      w_print \o w("x") \o w(";"),
      w_print \o w("1") \o w("+") \o w("2") \o w(";") }

\* a well-formed statement that is no print: `var x = 1 ;` `x = 2 ;`
WellFormedOther ==
    { w_var \o w("x") \o w("=") \o w("1") \o w(";"),
      w("x") \o w("=") \o w("2") \o w(";") }

\* the lines read: a print statement, alone or after another statement
Programs ==
    { Join(f, 1) : f \in WellFormedPrint }
    \cup { Join(m \o f, 1) : m \in Malformed \cup WellFormedOther, f \in WellFormedPrint }

\* Parser::load up to the loop of parse (parser.rs:25, 42): the scanner
\* loads the whole line
ParserLoad(source) ==
    /\ pc = "idle" /\ ~crashed /\ nlines < MaxLines
    /\ LET r == Scanner_load(WithStreams(parser.scanner, reported, printed), source)
       IN  /\ parser' = [parser EXCEPT !.scanner = Struct(r.s)]
           /\ reported' = r.s.reported
           /\ printed' = r.s.printed
           /\ crashed' = (r.kind = "panic")
    /\ load_stmts' = <<>>
    /\ history' = Append(history, source)
    /\ pc' = "parse"
    /\ UNCHANGED <<envs, functions, out, errlog, stmts_in, reached, nlines, build>>

\* one turn of the loop of parse (parser.rs:43-53)
ParseOne ==
    /\ pc = "parse" /\ ~crashed
    /\ ~is_at_end(parser)
    /\ LET r == parse_one(WithStreams(parser, reported, printed), load_stmts)
       IN  /\ parser' = Struct(r.p)
           /\ reported' = r.p.reported
           /\ printed' = r.p.printed
           /\ load_stmts' = r.statements
    /\ UNCHANGED <<interpVars, history, pc>>

\* parse returns and load keeps the statements (parser.rs:54, 26-28)
ParserReturn ==
    /\ pc = "parse" /\ ~crashed
    /\ is_at_end(parser)
    /\ parser' = [parser EXCEPT !.statements = @ \o load_stmts]
    /\ pc' = "loaded"
    /\ UNCHANGED <<interpVars, reported, printed, load_stmts, history>>

\* interpreter.interpret(expr) (main.rs:52-54)
Run ==
    /\ pc = "loaded"
    /\ InterpretCall(load_stmts)
    /\ pc' = "idle"
    /\ UNCHANGED <<parser, reported, printed, load_stmts, history>>

NextParse ==
    \/ pc = "idle" /\ \E source \in Programs : ParserLoad(source)
    \/ ParseOne
    \/ ParserReturn
    \/ Run

SpecParse == Init /\ [][NextParse]_vars

-----------------------------------------------------------------------------
(* What the claims are stated with.                                        *)

\* the innermost frame of es that binds name, 0 when none does
Innermost(es, name) ==
    IF \E i \in 1..Len(es) : name \in DOMAIN es[i]
    THEN CHOOSE i \in 1..Len(es) :
            /\ name \in DOMAIN es[i]
            /\ \A j \in (i + 1)..Len(es) : name \notin DOMAIN es[j]
    ELSE 0

\* frame env with name bound to v and every other binding as it was
WithBinding(env, name, v) == (name :> v) @@ env

\* what `print name;` writes at the top level of es
Shown(es, name) ==
    IF Innermost(es, name) = 0 THEN name
    ELSE Display(es[Innermost(es, name)][name])

\* the binding of name made by a `var` at the top level
TopBinding(name) ==
    IF name \in DOMAIN envs[Len(envs)] THEN Some(envs[Len(envs)][name]) ELSE None

\* a multiplied by itself b times
Power(a, b) == IF b = 0 THEN 1 ELSE a ^ b

\* interpret(statements) returns when called in the current state
Returns(statements) ==
    interpret(statements, 1, [envs |-> envs, functions |-> functions, out |-> <<>>],
              <<>>, build).kind = "ok"

\* the texts of 1..n in order
Counted(n) == [i \in 1..n |-> ToString(i)]

-----------------------------------------------------------------------------
\* the statements a new Parser returns for source
Loaded(source) == load(WithStreams(Parser_new, <<>>, <<>>), source).v

\* what a new Interpreter prints for statements
Printed(statements) ==
    interpret(statements, 1, [envs |-> << NoFrame >>, functions |-> NoFrame,
                              out |-> <<>>], <<>>, build).st.out

\* the tokens a new Scanner makes of source
Scanned(source) == Scanner_load(WithStreams(Scanner_default, <<>>, <<>>), source)

\* how many diagnostics of reported come from by
RECURSIVE ReportedBy(_, _)
ReportedBy(by, i) ==
    IF i > Len(reported) THEN 0
    ELSE (IF reported[i].by = by THEN 1 ELSE 0) + ReportedBy(by, i + 1)

\* how many characters of source are c
RECURSIVE Occurrences(_, _, _)
Occurrences(source, c, i) ==
    IF i > Len(source) THEN 0
    ELSE (IF source[i] = c THEN 1 ELSE 0) + Occurrences(source, c, i + 1)

(* C1: parsing one malformed statement followed by a well-formed print     *)
(* statement reports exactly one parse diagnostic, and the print statement *)
(* is in the statement list load returns and is executed, whatever the     *)
(* malformation: a token missing at a consume() site or a missing          *)
(* expression.                                                             *)
C1_OneDiagnosticPrintKept ==
    \A m \in Malformed, f \in WellFormedPrint :
        parser.scanner.source = Join(m \o f, 1) =>
            /\ pc = "loaded" =>
                  /\ ReportedBy("parser", 1) = 1
                  /\ load_stmts # <<>>
                  /\ load_stmts[Len(load_stmts)] = Loaded(Join(f, 1))[1]
            /\ (pc = "idle" /\ nlines = 1) =>
                  /\ out # <<>>
                  /\ out[Len(out)] = Printed(Loaded(Join(f, 1)))[1]

(* C2: interpret reaches every top-level statement: a statement that ends  *)
(* in a runtime failure is logged and the statements after it still        *)
(* execute; the interpreter never aborts.  Stated for `<failing> print 1;` *)
(* with each failing statement of Failing.                                 *)
C2_FailureIsIsolated ==
    \A f \in Failing :
        stmts_in = L_fail(f) =>
            /\ ~crashed
            /\ reached = 2
            /\ Len(errlog) = 1
            /\ out = << "1" >>

(* C3: between two top-level statements the scope stack holds exactly the  *)
(* global frame: a block or a call leaves the stack at the depth it had on *)
(* every exit path, a runtime failure inside it included.                  *)
C3_StackRestored == ~crashed => Len(envs) = 1

(* C4: when the scanner meets a character that starts no token it reports  *)
(* a scan error, sets had_error and goes on with the next character: load  *)
(* returns normally, the tokens after the bad character are appended, and  *)
(* several bad characters give several errors in one pass.                 *)
C4_ScanContinues ==
    /\ (\E k \in 1..Len(reported) : reported[k].msg = "Unexpected character: @") =>
          /\ parser.scanner.had_error
          /\ ~crashed
    /\ \A source \in Sources :
          (/\ parser.scanner.source = source
           /\ \A i \in 1..Len(source) : source[i] \in {"@", "a", "1", "+", " "}) =>
              /\ ~crashed
              /\ pc = "scanned" =>
                    /\ ReportedBy("scanner", 1) = Occurrences(source, "@", 1)
                    /\ source[1] = "@" =>
                          parser.scanner.tokens
                              = Scanned(SubSeq(source, 2, Len(source))).s.tokens

C6_PlusConcatenates ==
    /\ \A l \in Operands, r \in Operands :
          (l.tag = "String" \/ r.tag = "String") =>
              (stmts_in = L_binary("PLUS", l, r) =>
                  /\ ~crashed /\ errlog = <<>>
                  /\ TopBinding("r") = Some(String(Display(l) \o Display(r))))
    /\ stmts_in = L_chain(String("Hello"), String(" "), String("World!")) =>
          TopBinding("r") = Some(String("Hello World!"))
    /\ stmts_in = L_chain(Integer(1), String("Hello"), Integer(5)) =>
          TopBinding("r") = Some(String("1Hello5"))

(* C7: a call binds the i-th parameter to the i-th argument in a frame of  *)
(* its own, evaluates the arguments left to right in the caller's scope,   *)
(* yields the value of the first return executed (Empty without one), and  *)
(* leaves the caller's frames as they were; a declaration does not run the *)
(* body.                                                                   *)
C7_Step ==
    /\ \A x \in 0..1, y \in 1..2 :
          stmts_in' = L_add(x, y) =>
              /\ envs' = [envs EXCEPT ![Len(envs)] = WithBinding(@, "r", Integer(x + y))]
              /\ out' = <<>> /\ errlog' = <<>> /\ ~crashed'
    /\ stmts_in' = L_order =>
          /\ envs' = [envs EXCEPT ![Len(envs)] = WithBinding(@, "r", Integer(1))]
          /\ out' = << "1", "2", "1", "2" >> /\ errlog' = <<>> /\ ~crashed'
    /\ stmts_in' = L_caller_scope =>
          /\ envs' = [envs EXCEPT ![Len(envs)] =
                        WithBinding(WithBinding(@, "a", Integer(7)), "r", Integer(8))]
          /\ out' = << "7" >> /\ errlog' = <<>> /\ ~crashed'
    /\ stmts_in' = L_noreturn =>
          /\ envs' = [envs EXCEPT ![Len(envs)] = WithBinding(@, "r", Empty)]
          /\ out' = << "2" >> /\ errlog' = <<>> /\ ~crashed'
    /\ stmts_in' = L_decl_only =>
          /\ envs' = envs /\ out' = <<>> /\ errlog' = <<>> /\ ~crashed'
          /\ "h" \in DOMAIN functions'

C7_CallBindsAndReturns == [][C7_Step]_vars

C7_Witness ==
    /\ stmts_in = L_order
    /\ out = << "1", "2", "1", "2" >>
    /\ TopBinding("r") = Some(Integer(1))

(* C8: `var a = 0; while (a < n) { a = a + 1; }` returns, after exactly n  *)
(* executions of the body, with a bound to Integer n in the frame the      *)
(* `var` declared it in (the global frame when the stack is at its base);  *)
(* with `print a;` added to the body the output is 1..n.                   *)
C8_WhileCounts ==
    \A n \in 0..MaxInt :
        /\ stmts_in = L_while(n) =>
              /\ ~crashed /\ errlog = <<>> /\ reached = 2 /\ out = <<>>
              /\ TopBinding("a") = Some(Integer(n))
        /\ stmts_in = L_while_out(n) =>
              /\ ~crashed /\ errlog = <<>> /\ reached = 2
              /\ out = Counted(n)
              /\ TopBinding("a") = Some(Integer(n))
        /\ ~crashed => Returns(L_while(n))

C8_Witness ==
    /\ stmts_in = L_while_out(MaxInt)
    /\ Len(out) = MaxInt
    /\ Len(envs) = 1
    /\ envs[1]["a"] = Integer(MaxInt)

(* C9: `x = v` writes v into the innermost frame that binds x, or into the *)
(* global frame when none does, and changes no other frame and no other    *)
(* name; a name first assigned inside nested blocks is bound globally once *)
(* the blocks have exited.                                                 *)
AssignEffect(es, es2, name, v) ==
    LET i == IF Innermost(es, name) = 0 THEN 1 ELSE Innermost(es, name)
    IN  es2 = [es EXCEPT ![i] = WithBinding(@, name, v)]

C9_Step ==
    /\ \A name \in {"x", "y"} :
          stmts_in' = L_assign(name, 7) =>
              /\ AssignEffect(envs, envs', name, Integer(7))
              /\ errlog' = <<>> /\ ~crashed'
    /\ stmts_in' = L_implicit =>
          /\ AssignEffect(envs, envs', "y", Integer(5))
          /\ errlog' = <<>> /\ ~crashed'
    /\ stmts_in' = L_nested_assign =>
          /\ envs' = envs
          /\ out' = << "3", "1", "4" >>

C9_AssignFrameEffect == [][C9_Step]_vars

C9_Witness ==
    /\ stmts_in = L_assign("x", 7)
    /\ Len(envs) = 2
    /\ envs[2] = [x |-> Integer(7)]
    /\ envs[1] = [x |-> Integer(0)]

(* C10: `var x` in a block binds x in the block's frame only: inside the   *)
(* block x is the inner value, no outer frame is changed, and after the    *)
(* block x is the outer binding again, or unbound.                         *)
C10_Step ==
    stmts_in' = L_var_block =>
        /\ envs' = envs
        /\ out' = << "2", Shown(envs, "x") >>
        /\ errlog' = <<>> /\ ~crashed'

C10_VarIsBlockLocal == [][C10_Step]_vars

C10_Witness ==
    /\ stmts_in = L_var_block
    /\ out = << "2", "0" >>
    /\ envs = << [x |-> Integer(0)] >>

-----------------------------------------------------------------------------
(* Functions, calls and returns as run_repl drives them: a second pool of  *)
(* lines for the same Interpreter.                                         *)

True == ELiteral(Boolean(TRUE))

\* `fun f(n) { var i = 0;`
\* `  while (true) { while (i <= MaxInt) {`
\* `      { if (i == n) { return i; } else { print i; } } i = i + 1; }`
\* `    print 98; }`
\* `  print 99; }`
\* `var r = f(n); print 7;`
L_unwind(n) ==
    << SFunction(Id("f"), << Id("n") >>,
         << SVar(Id("i"), Some(Num(0))),
            SWhile(True,
              SBlock(<<
                SWhile(Bin(V("i"), "LESS_EQUAL", Num(MaxInt)),
                  SBlock(<<
                    SBlock(<< SIf(Bin(V("i"), "EQUAL_EQUAL", V("n")),
                                  SBlock(<< Return(V("i")) >>),
                                  Some(SBlock(<< SPrint(V("i")) >>))) >>),
                    Set("i", Bin(V("i"), "PLUS", Num(1))) >>)),
                SPrint(Num(98)) >>)),
            SPrint(Num(99)) >>),
       SVar(Id("r"), Some(Call("f", << Num(n) >>))),
       SPrint(Num(7)) >>

\* `fun b() { { if (true) return; print 1; } print 2; } var r = b();`
L_bare ==
    << SFunction(Id("b"), <<>>,
         << SBlock(<< SIf(True, SReturn(Op("RETURN"), None), None),
                      SPrint(Num(1)) >>),
            SPrint(Num(2)) >>),
       SVar(Id("r"), Some(Call("b", <<>>))) >>

\* `fun e(n) { if (n == 0) print 0; else return n; print 1; } var r = e(n);`
L_else(n) ==
    << SFunction(Id("e"), << Id("n") >>,
         << SIf(Bin(V("n"), "EQUAL_EQUAL", Num(0)), SPrint(Num(0)),
                Some(Return(V("n")))),
            SPrint(Num(1)) >>),
       SVar(Id("r"), Some(Call("e", << Num(n) >>))) >>

\* the table entry of `fun k() { return v; }`
FunK(v) == [name |-> Id("k"), params |-> <<>>, body |-> << Return(Num(v)) >>]

\* `{ fun k() { return v; } } var r = k();`
L_fun_block(v) ==
    << SBlock(<< SFunction(Id("k"), <<>>, << Return(Num(v)) >>) >>),
       SVar(Id("r"), Some(Call("k", <<>>))) >>

\* `fun g() { fun k() { return 3; } } g(); var r = k();`
L_fun_in_call ==
    << SFunction(Id("g"), <<>>,
                 << SFunction(Id("k"), <<>>, << Return(Num(3)) >>) >>),
       SExpression(Call("g", <<>>)),
       SVar(Id("r"), Some(Call("k", <<>>))) >>

\* `fun k() { return 1; } fun k() { return 2; } var r = k();`
L_redeclare ==
    << SFunction(Id("k"), <<>>, << Return(Num(1)) >>),
       SFunction(Id("k"), <<>>, << Return(Num(2)) >>),
       SVar(Id("r"), Some(Call("k", <<>>))) >>

\* `var k = 5; k = 6; var r = k(); print k;`
L_var_same_name ==
    << SVar(Id("k"), Some(Num(5))), Set("k", Num(6)),
       SVar(Id("r"), Some(Call("k", <<>>))), SPrint(V("k")) >>

\* `{ var z = 9; fun q(p) { print p; print z; return z; } } var r = q(1);`
L_no_capture ==
    << SBlock(<< SVar(Id("z"), Some(Num(9))),
                 SFunction(Id("q"), << Id("p") >>,
                           << SPrint(V("p")), SPrint(V("z")), Return(V("z")) >>) >>),
       SVar(Id("r"), Some(Call("q", << Num(1) >>))) >>

\* `{ var z = 9; fun s(p) { nofn(); } } s(1);`
L_leak_frame ==
    << SBlock(<< SVar(Id("z"), Some(Num(9))),
                 SFunction(Id("s"), << Id("p") >>,
                           << SExpression(Call("nofn", <<>>)) >>) >>),
       SExpression(Call("s", << Num(1) >>)) >>

\* `fun g(p) { print p; return p; }`
FunG == SFunction(Id("g"), << Id("p") >>, << SPrint(V("p")), Return(V("p")) >>)

\* `fun g(p) { print p; return p; } fun one(a) { print a; return a; }`
\* `var r = one(g(1), g(2));`
L_extra ==
    << FunG,
       SFunction(Id("one"), << Id("a") >>, << SPrint(V("a")), Return(V("a")) >>),
       SVar(Id("r"), Some(Call("one", << Call("g", << Num(1) >>),
                                         Call("g", << Num(2) >>) >>))) >>

\* `fun g(p) { print p; return p; } fun one(a) { nofn(); } one(g(1), g(2));`
L_extra_frame ==
    << FunG,
       SFunction(Id("one"), << Id("a") >>, << SExpression(Call("nofn", <<>>)) >>),
       SExpression(Call("one", << Call("g", << Num(1) >>),
                                  Call("g", << Num(2) >>) >>)) >>

\* `fun pair(a, b) { print a; print b; return b; } var r = pair(1);`
L_fewer ==
    << SFunction(Id("pair"), << Id("a"), Id("b") >>,
                 << SPrint(V("a")), SPrint(V("b")), Return(V("b")) >>),
       SVar(Id("r"), Some(Call("pair", << Num(1) >>))) >>

\* `fun pair(a, b) { nofn(); } pair(1);`
L_fewer_frame ==
    << SFunction(Id("pair"), << Id("a"), Id("b") >>,
                 << SExpression(Call("nofn", <<>>)) >>),
       SExpression(Call("pair", << Num(1) >>)) >>

\* `print u; var r = u;`
L_unbound == << SPrint(V("u")), SVar(Id("r"), Some(V("u"))) >>

\* `var q = 8;`
L_outer == << SVar(Id("q"), Some(Num(8))) >>

\* `fun show(q) { print q; } show();`
L_short ==
    << SFunction(Id("show"), << Id("q") >>, << SPrint(V("q")) >>),
       SExpression(Call("show", <<>>)) >>

\* `fun rw() { print y; y = 5; } { var y = 1; rw(); print y; }`
L_caller_block ==
    << SFunction(Id("rw"), <<>>, << SPrint(V("y")), Set("y", Num(5)) >>),
       SBlock(<< SVar(Id("y"), Some(Num(1))),
                 SExpression(Call("rw", <<>>)),
                 SPrint(V("y")) >>) >>

\* `fun inner() { print z; z = 7; } fun outer(z) { inner(); print z; }`
\* `outer(1);`
L_caller_param ==
    << SFunction(Id("inner"), <<>>, << SPrint(V("z")), Set("z", Num(7)) >>),
       SFunction(Id("outer"), << Id("z") >>,
                 << SExpression(Call("inner", <<>>)), SPrint(V("z")) >>),
       SExpression(Call("outer", << Num(1) >>)) >>

\* the lines a run of functions and calls may feed to the interpreter
Calls ==
    { L_unwind(n) : n \in 0..MaxInt }
    \cup { L_else(n) : n \in 0..MaxInt }
    \cup { L_bare }
    \cup { L_fun_block(v) : v \in 1..2 }
    \cup { L_fun_in_call, L_redeclare, L_var_same_name, L_no_capture, L_leak_frame }
    \cup { L_extra, L_extra_frame, L_fewer, L_fewer_frame }
    \cup { L_unbound, L_outer, L_short }
    \cup { L_caller_block, L_caller_param }

NextCalls == \E statements \in Calls : Interpret(statements)

SpecCalls == Init /\ [][NextCalls]_vars

-----------------------------------------------------------------------------
(* C11: when a return executes inside any nesting of blocks, if-branches   *)
(* and while loops of a function body, no further statement of the body    *)
(* executes, every enclosing loop stops, the call evaluates to the         *)
(* returned value (Empty for a bare return), and every frame pushed since  *)
(* the call began has been popped when the call yields.  Checked on the    *)
(* interpret steps of the lines L_unwind, L_bare and L_else: the output is *)
(* what ran before the return, r holds the returned value in the frame     *)
(* that was innermost before the call, and no other frame changed.         *)
C11_Step ==
    /\ \A n \in 0..MaxInt :
          stmts_in' = L_unwind(n) =>
              /\ ~crashed' /\ errlog' = <<>>
              /\ out' = [k \in 1..n |-> ToString(k - 1)] \o << "7" >>
              /\ envs' = define(envs, "r", Integer(n))
    /\ stmts_in' = L_bare =>
          /\ ~crashed' /\ errlog' = <<>>
          /\ out' = <<>>
          /\ envs' = define(envs, "r", Empty)
    /\ \A n \in 0..MaxInt :
          stmts_in' = L_else(n) =>
              /\ ~crashed' /\ errlog' = <<>>
              /\ out' = (IF n = 0 THEN << "0", "1" >> ELSE <<>>)
              /\ envs' = define(envs, "r", IF n = 0 THEN Empty ELSE Integer(n))

C11_ReturnUnwinds == [][C11_Step]_vars

C11_Witness ==
    /\ stmts_in = L_unwind(MaxInt)
    /\ out = [k \in 1..MaxInt |-> ToString(k - 1)] \o << "7" >>
    /\ TopBinding("r") = Some(Integer(MaxInt))
    /\ Len(envs) = 1

-----------------------------------------------------------------------------
\* a literal that is an Integer or a Float
IsNumber(v) == v.tag \in {"Integer", "Float"}

(* C12: `-`, `*`, `/` or `**` with an operand that is not a number yields  *)
(* a typed runtime failure, never an ordinary value and never a crash:     *)
(* after `var r = l <op> r;` with such an operand the interpreter has not  *)
(* crashed, one error is logged and r is not bound.                        *)
C12_NonNumberFails ==
    \A tt \in Arithmetic \ {"PLUS"}, l \in Operands, r \in Operands :
        (stmts_in = L_binary(tt, l, r) /\ ~(IsNumber(l) /\ IsNumber(r))) =>
            /\ ~crashed
            /\ Len(errlog) = 1
            /\ TopBinding("r") = None

-----------------------------------------------------------------------------
\* the standard comparison of two integers
Ordered(tt, a, b) ==
    CASE tt = "GREATER" -> a > b
      [] tt = "GREATER_EQUAL" -> a >= b
      [] tt = "LESS" -> a < b
      [] tt = "LESS_EQUAL" -> a <= b

(* C13: `>`, `>=`, `<`, `<=` on two Integers give the Boolean of the       *)
(* integer comparison; on any other pair of operands they give Empty, not  *)
(* a Boolean: after `var r = l <op> r;` r is bound to that value.          *)
C13_ComparisonOrEmpty ==
    \A tt \in Comparisons, l \in Operands, r \in Operands :
        stmts_in = L_binary(tt, l, r) =>
            /\ ~crashed
            /\ errlog = <<>>
            /\ TopBinding("r") =
                   Some(IF l.tag = "Integer" /\ r.tag = "Integer"
                        THEN Boolean(Ordered(tt, l.i, r.i))
                        ELSE Empty)

-----------------------------------------------------------------------------
\* the numerator and denominator of a finite number
Ratio(v) == IF v.tag = "Integer" THEN << v.i, 1 >> ELSE << v.num, v.den >>

\* both numeric and numerically equal, or Strings with the same text, or
\* Booleans with the same value
SameValue(a, b) ==
    \/ IsNumber(a) /\ IsNumber(b) /\ Ratio(a)[1] * Ratio(b)[2] = Ratio(b)[1] * Ratio(a)[2]
    \/ a.tag = "String" /\ b.tag = "String" /\ a.s = b.s
    \/ a.tag = "Boolean" /\ b.tag = "Boolean" /\ a.b = b.b

(* C14: `a == b` is true exactly when both operands are numeric and        *)
(* numerically equal, or Strings with the same text, or Booleans with the  *)
(* same value; it is false when either operand is Empty; the relation is   *)
(* symmetric; `a != b` is its negation.  After `var r = l == r;` or        *)
(* `var r = l != r;` r is bound to that Boolean.                           *)
C14_Equality ==
    \A tt \in Equalities, l \in Operands, r \in Operands :
        stmts_in = L_binary(tt, l, r) =>
            /\ ~crashed
            /\ errlog = <<>>
            /\ TopBinding("r") = Some(Boolean((tt = "EQUAL_EQUAL") = SameValue(l, r)))
            /\ (l = Empty \/ r = Empty) => TopBinding("r") = Some(Boolean(tt = "BANG_EQUAL"))
            /\ is_equal(l, r) = is_equal(r, l)

C14_Witness ==
    /\ stmts_in = L_binary("EQUAL_EQUAL", Integer(1), Float(1, 1))
    /\ TopBinding("r") = Some(Boolean(TRUE))

-----------------------------------------------------------------------------
\* Empty false, zero false, every other number true, every String true, a
\* Boolean its own value
Truthy(v) ==
    CASE v.tag = "Empty" -> FALSE
      [] v.tag = "Integer" -> v.i # 0
      [] v.tag = "Float" -> v.num # 0
      [] v.tag = "String" -> TRUE
      [] v.tag = "Boolean" -> v.b

(* C15: truthiness is Empty false, Integer 0 and Float 0.0 false, every    *)
(* other number true, every String true, a Boolean its own value; `!v` is  *)
(* the Boolean negation of the truthiness of v; `if` and `while` take      *)
(* their branch exactly when the condition is truthy.                      *)
C15_Truthiness ==
    \A v \in Operands :
        /\ stmts_in = L_not(v) =>
              ~crashed /\ errlog = <<>> /\ TopBinding("r") = Some(Boolean(~Truthy(v)))
        /\ stmts_in = L_if(v) =>
              ~crashed /\ errlog = <<>> /\ out = << IF Truthy(v) THEN "1" ELSE "2" >>
        /\ stmts_in = L_while_once(v) =>
              ~crashed /\ errlog = <<>> /\ out = (IF Truthy(v) THEN << "1" >> ELSE <<>>)

C15_Witness ==
    /\ stmts_in = L_not(Integer(0))
    /\ TopBinding("r") = Some(Boolean(TRUE))

-----------------------------------------------------------------------------
(* C20: Integer ** Integer with a negative exponent yields a failure,      *)
(* never an Integer value and never a crash: after `var r = a ** -b;` the  *)
(* interpreter has not crashed, one error is logged and r is not bound.    *)
C20_NegativeExponentFails ==
    \A a \in 0..MaxInt, b \in 1..MaxInt :
        stmts_in = L_pow_neg(a, b) =>
            /\ ~crashed
            /\ Len(errlog) = 1
            /\ TopBinding("r") = None

-----------------------------------------------------------------------------
\* the frames es with name bound to v in the innermost one
Bound(es, name, v) == [es EXCEPT ![Len(es)] = WithBinding(@, name, v)]

(* C18: a function declaration executed at any depth registers the         *)
(* function in the one global table: it stays callable after the           *)
(* declaring block or call has exited, a later declaration of the name     *)
(* replaces the earlier one, the frame pushed at call time holds only the  *)
(* function's parameters, and a variable of the same name never hides or   *)
(* replaces the function.  Checked on the interpret steps of the lines     *)
(* L_fun_block, L_fun_in_call, L_redeclare, L_var_same_name, L_no_capture  *)
(* and L_leak_frame.                                                       *)
C18_Step ==
    /\ \A v \in 1..2 :
          stmts_in' = L_fun_block(v) =>
              /\ errlog' = <<>>
              /\ functions' = WithBinding(functions, "k", FunK(v))
              /\ envs' = Bound(envs, "r", Integer(v))
    /\ stmts_in' = L_fun_in_call =>
          /\ errlog' = <<>>
          /\ "k" \in DOMAIN functions' /\ functions'["k"] = FunK(3)
          /\ envs' = Bound(envs, "r", Integer(3))
    /\ stmts_in' = L_redeclare =>
          /\ errlog' = <<>>
          /\ functions' = WithBinding(functions, "k", FunK(2))
          /\ envs' = Bound(envs, "r", Integer(2))
    /\ stmts_in' = L_var_same_name =>
          /\ functions' = functions
          /\ out' = << "6" >>
          /\ IF "k" \in DOMAIN functions
             THEN /\ errlog' = <<>>
                  /\ envs' = Bound(Bound(envs, "k", Integer(6)), "r",
                                    functions["k"].body[1].value.x.lit)
             ELSE /\ Len(errlog') = 1
                  /\ envs' = Bound(envs, "k", Integer(6))
    /\ stmts_in' = L_no_capture =>
          /\ errlog' = <<>>
          /\ out' = << "1", "z" >>
          /\ envs' = Bound(envs, "r", String("z"))
    /\ stmts_in' = L_leak_frame =>
          /\ Len(errlog') = 1
          /\ envs' = Append(envs, "p" :> Integer(1))

C18_FunctionTableIsGlobal == [][C18_Step]_vars

C18_Witness ==
    /\ stmts_in = L_var_same_name
    /\ "k" \in DOMAIN functions /\ functions["k"] = FunK(2)
    /\ TopBinding("r") = Some(Integer(2))
    /\ TopBinding("k") = Some(Integer(6))

-----------------------------------------------------------------------------
(* Parser::load on a sequence of lines, as run_repl feeds them to the one  *)
(* Parser: a second pool of lines for the front end.                       *)

\* a well-formed expression: `a` `a + 1` `f ( 1 )` `1 + a` `( a )`
Expressions ==
    { w("a"),
      w("a") \o w("+") \o w("1"),
      w("f") \o w("(") \o w("1") \o w(")"),
      w("1") \o w("+") \o w("a"),
      w("(") \o w("a") \o w(")") }

\* `print <expression> ;`
PrintOf(e) == Join(w_print \o e \o w(";"), 1)

\* `<expression> ;`
StatementOf(e) == Join(e \o w(";"), 1)

\* lines of other shapes: two statements, a missing `;`, a missing
\* expression before a print statement, a bare number
Others ==
    { Join(w_var \o w("x") \o w("=") \o w("1") \o w(";")
               \o w("x") \o w("=") \o w("2") \o w(";"), 1),
      Join(w_print \o w("1"), 1),
      Join(w("1") \o w("+") \o w(";") \o w_print \o w("2") \o w(";"), 1),
      Join(w("1"), 1) }

\* the lines read
Fragments == { PrintOf(e) : e \in Expressions } \cup Others

NextLoad ==
    \/ pc = "idle" /\ \E source \in Fragments : ParserLoad(source)
    \/ ParseOne
    \/ ParserReturn
    \/ Run

SpecLoad == Init /\ [][NextLoad]_vars

-----------------------------------------------------------------------------
(* C16: `print <expression>;` parses into exactly one Print statement      *)
(* holding that expression, with no diagnostic, for every well-formed      *)
(* expression, those that begin with an identifier included: when load     *)
(* has returned for such a line, its statements are the one Print of the   *)
(* expression that `<expression>;` parses to, and a first line leaves no   *)
(* diagnostic.                                                             *)
C16_PrintParses ==
    \A e \in Expressions :
        (pc = "loaded" /\ history[Len(history)] = PrintOf(e)) =>
            /\ load_stmts = << SPrint(Loaded(StatementOf(e))[1].expr) >>
            /\ Len(history) = 1 => reported = <<>>

-----------------------------------------------------------------------------
\* the tokens of the first n sources of h, each scanned on its own
RECURSIVE TokensOf(_, _)
TokensOf(h, n) ==
    IF n = 0 THEN <<>> ELSE TokensOf(h, n - 1) \o Scanned(h[n]).s.tokens

\* the statements of the first n sources of h, each parsed on its own
RECURSIVE StatementsOf(_, _)
StatementsOf(h, n) ==
    IF n = 0 THEN <<>> ELSE StatementsOf(h, n - 1) \o Loaded(h[n])

\* a is a prefix of b
IsPrefix(a, b) == Len(a) <= Len(b) /\ SubSeq(b, 1, Len(a)) = a

(* C17: for any sequence of load calls on one Parser, each call returns    *)
(* exactly the statements parsed from that call's fragment, never those    *)
(* of earlier fragments, while scanner.tokens and parser.statements only   *)
(* grow and hold the tokens and statements of all fragments in the order   *)
(* they were loaded.                                                       *)
C17_Step ==
    /\ IsPrefix(parser.scanner.tokens, parser'.scanner.tokens)
    /\ IsPrefix(parser.statements, parser'.statements)
    /\ parser'.scanner.tokens = TokensOf(history', Len(history'))
    /\ pc' = "parse" => parser'.statements = StatementsOf(history', Len(history') - 1)
    /\ pc' \in {"loaded", "idle"} =>
          parser'.statements = StatementsOf(history', Len(history'))
    /\ pc' = "loaded" => load_stmts' = Loaded(history'[Len(history')])

C17_LoadsAccumulate == [][C17_Step]_vars

C17_Witness ==
    /\ pc = "loaded"
    /\ history = << PrintOf(w("a")), PrintOf(w("1") \o w("+") \o w("a")) >>
    /\ Len(load_stmts) = 1
    /\ Len(parser.statements) = 2
    /\ Len(parser.scanner.tokens) = 8

-----------------------------------------------------------------------------
\* where parsing resumes after a failure at token k (counted from 0): past
\* the next semicolon, or at the next token that can start a statement
RECURSIVE Resume(_, _)
Resume(tokens, k) ==
    IF k >= Len(tokens) THEN Len(tokens)
    ELSE IF tokens[k + 1].token_type \in Boundary THEN k
    ELSE IF tokens[k + 1].token_type = "SEMICOLON" THEN k + 1
    ELSE Resume(tokens, k + 1)

\* the token (counted from 0) at which the line `m f` fails to parse: the
\* `;` of `( 1 ;` `1 + ;` `x = ;`, the `=` of `var = 1 ;`, the `+` of
\* `+ ;`, and the token after m when only the `;` of m is missing
FailureAt(m) ==
    CASE m = w("(") \o w("1") \o w(";") -> 2
      [] m = w("1") \o w("+") \o w(";") -> 2
      [] m = w("x") \o w("=") \o w(";") -> 2
      [] m = w_var \o w("=") \o w("1") \o w(";") -> 1
      [] m = w("+") \o w(";") -> 0
      [] OTHER -> Len(m)

(* C19: after a parse failure the tokens discarded are exactly those up to *)
(* and including the next semicolon, or up to but excluding the next token *)
(* that can start a statement, whichever comes first; parsing resumes at   *)
(* that boundary, so a statement that begins at the point of failure with  *)
(* such a keyword is not discarded.  For a first line `m f`, m malformed   *)
(* and f a print statement: the turn of the loop of parse that meets the   *)
(* failure leaves current at the boundary, and load returns f.             *)
C19_Step ==
    \A m \in Malformed, f \in WellFormedPrint :
        (history = << Join(m \o f, 1) >> /\ pc = "parse") =>
            /\ (parser.current = 0 /\ pc' = "parse") =>
                  parser'.current = Resume(parser.scanner.tokens, FailureAt(m))
            /\ pc' = "loaded" => load_stmts' = Loaded(Join(f, 1))

C19_ResumesAtBoundary == [][C19_Step]_vars

-----------------------------------------------------------------------------
Quotes == {"'", "\""}

\* source opens a string literal with its first character and never closes it
Unterminated(source) ==
    /\ source[1] \in Quotes
    /\ \A i \in 2..Len(source) : source[i] # source[1]

(* C21: when the closing quote of a string literal is missing the scanner  *)
(* reports an unterminated-string error, sets had_error, consumes the rest *)
(* of the input and load returns normally, with no abort, for every such   *)
(* input, the opening quote alone included; a string opened with one kind  *)
(* of quote is closed only by the same kind.                               *)
C21_UnterminatedString ==
    \A source \in Sources :
        /\ (history = << source >> /\ Unterminated(source)) =>
              /\ ~crashed
              /\ pc = "scanned" =>
                    /\ parser.scanner.had_error
                    /\ \E k \in 1..Len(reported) : reported[k].msg = "Unterminated string"
                    /\ parser.scanner.current = Len(source)
        /\ (/\ history = << source >> /\ Len(source) = 3 /\ pc = "scanned"
            /\ source[1] \in Quotes /\ source[3] = source[1] /\ source[2] # source[1]) =>
              /\ ~parser.scanner.had_error
              /\ Len(parser.scanner.tokens) = 1
              /\ parser.scanner.tokens[1].token_type = "STRING"
              /\ parser.scanner.tokens[1].literal = String(source[2])

-----------------------------------------------------------------------------
(* The scanner on sources that hold a comment: Scanner::load on one text   *)
(* of a pool, then the loop of scan_tokens.                                *)

\* what stands between `/*` and `*/`: up to MaxBody characters
Bodies == UNION { [1..n -> {"a", "1", " "}] : n \in 0..MaxBody }

\* `/* body */ rest`
Closed(body, rest) == << "/", "*" >> \o body \o << "*", "/" >> \o rest

\* `/* body`
Open(body) == << "/", "*" >> \o body

Rests == { <<>>, << "1" >> }

Commented ==
    { Closed(body, rest) : body \in Bodies, rest \in Rests }
    \cup { Open(body) : body \in Bodies }

NextComment ==
    \/ pc = "idle" /\ \E source \in Commented : ScannerLoad(source)
    \/ ScanToken
    \/ ScannerReturn

SpecComment == Init /\ [][NextComment]_vars

\* the tokens that are no block comment
NotBlockComment(t) == t.token_type # "BLOCK_COMMENT"

(* C22: after `/*` the scanner consumes every character up to and          *)
(* including the next `*/` as one block comment: no character between is   *)
(* a token of its own and scanning resumes right after `*/`; a `/*` with   *)
(* no `*/` before the end of input is recorded as an unterminated-comment  *)
(* scan error and load returns normally.                                   *)
C22_BlockComment ==
    /\ ~crashed
    /\ \A body \in Bodies :
          /\ \A rest \in Rests :
                (history = << Closed(body, rest) >> /\ pc = "scanned") =>
                    /\ ~parser.scanner.had_error
                    /\ SelectSeq(parser.scanner.tokens, NotBlockComment)
                          = Scanned(rest).s.tokens
          /\ (history = << Open(body) >> /\ pc = "scanned") =>
                /\ parser.scanner.had_error
                /\ parser.scanner.tokens = <<>>
                /\ \E k \in 1..Len(reported) :
                      reported[k].msg = "Unterminated block comment!"

-----------------------------------------------------------------------------
(* for loops as run_repl reads them: a third pool of lines for the front   *)
(* end, each a for statement followed by `print i ;`.                      *)

w_for == << <<"f", "o", "r">> >>
w_while == << <<"w", "h", "i", "l", "e">> >>
w_fun == << <<"f", "u", "n">> >>
w_return == << <<"r", "e", "t", "u", "r", "n">> >>
w_true == << <<"t", "r", "u", "e">> >>

\* `var i = 0 ;` `i = 0 ;` `i < n` `i = i + 1` `print i ;`
w_init == w_var \o w("i") \o w("=") \o w("0") \o w(";")
w_reset == w("i") \o w("=") \o w("0") \o w(";")
w_below(n) == w("i") \o w("<") \o w(ToString(n))
w_incr == w("i") \o w("=") \o w("i") \o w("+") \o w("1")
w_show == w_print \o w("i") \o w(";")

\* `for ( var i = 0 ; i < n ; i = i + 1 ) print i ;`
ForFull(n) ==
    w_for \o w("(") \o w_init \o w_below(n) \o w(";") \o w_incr \o w(")") \o w_show

\* `{ var i = 0 ; while ( i < n ) { print i ; i = i + 1 ; } }`
WhileFull(n) ==
    w("{") \o w_init \o w_while \o w("(") \o w_below(n) \o w(")")
        \o w("{") \o w_show \o w_incr \o w(";") \o w("}") \o w("}")

\* `i = 0 ; for ( ; i < n ; i = i + 1 ) print i ;`
ForNoInit(n) ==
    w_reset \o w_for \o w("(") \o w(";") \o w_below(n) \o w(";") \o w_incr \o w(")")
        \o w_show

\* `i = 0 ; while ( i < n ) { print i ; i = i + 1 ; }`
WhileNoInit(n) ==
    w_reset \o w_while \o w("(") \o w_below(n) \o w(")")
        \o w("{") \o w_show \o w_incr \o w(";") \o w("}")

\* `for ( var i = 0 ; i < n ; ) i = i + 1 ;`
ForNoIncr(n) ==
    w_for \o w("(") \o w_init \o w_below(n) \o w(";") \o w(")") \o w_incr \o w(";")

\* `{ var i = 0 ; while ( i < n ) i = i + 1 ; }`
WhileNoIncr(n) ==
    w("{") \o w_init \o w_while \o w("(") \o w_below(n) \o w(")") \o w_incr \o w(";")
        \o w("}")

\* `fun f ( ) { for ( ; ; ) return 1 ; } var r = f ( ) ;`
ForNoCond ==
    w_fun \o w("f") \o w("(") \o w(")") \o w("{")
        \o w_for \o w("(") \o w(";") \o w(";") \o w(")") \o w_return \o w("1") \o w(";")
        \o w("}") \o w_var \o w("r") \o w("=") \o w("f") \o w("(") \o w(")") \o w(";")

\* `fun f ( ) { while ( true ) return 1 ; } var r = f ( ) ;`
WhileNoCond ==
    w_fun \o w("f") \o w("(") \o w(")") \o w("{")
        \o w_while \o w("(") \o w_true \o w(")") \o w_return \o w("1") \o w(";")
        \o w("}") \o w_var \o w("r") \o w("=") \o w("f") \o w("(") \o w(")") \o w(";")

\* the line of words followed by `print i ;`
Line(words) == Join(words \o w_show, 1)

ForLines ==
    { Line(ForFull(n)) : n \in 0..MaxInt }
    \cup { Line(ForNoInit(n)) : n \in {0, MaxInt} }
    \cup { Line(ForNoIncr(n)) : n \in {0, MaxInt} }
    \cup { Line(ForNoCond) }

NextFor ==
    \/ pc = "idle" /\ \E source \in ForLines : ParserLoad(source)
    \/ ParseOne
    \/ ParserReturn
    \/ Run

SpecFor == Init /\ [][NextFor]_vars

\* the source of the load call under way, or the last one that returned
Last(h) == h[Len(h)]

\* the texts of 0..n-1 in order
CountedFrom0(n) == [k \in 1..n |-> ToString(k - 1)]

(* C23: the parser turns `for (init; cond; incr) body` into the statements *)
(* of `{ init; while (cond) { body; incr; } }`; executing it runs init     *)
(* once, evaluates cond before each iteration, runs incr after each        *)
(* execution of body and gives the final bindings of the hand-written      *)
(* form; an absent cond is the Boolean literal true; a variable declared   *)
(* in init is not visible after the loop.                                  *)
C23_Step ==
    /\ (pc' = "loaded" /\ history' # <<>>) =>
          /\ ~parser'.had_error
          /\ \A n \in 0..MaxInt :
                /\ Last(history') = Line(ForFull(n)) =>
                      load_stmts' = Loaded(Line(WhileFull(n)))
                /\ Last(history') = Line(ForNoInit(n)) =>
                      load_stmts' = Loaded(Line(WhileNoInit(n)))
                /\ Last(history') = Line(ForNoIncr(n)) =>
                      load_stmts' = Loaded(Line(WhileNoIncr(n)))
          /\ Last(history') = Line(ForNoCond) =>
                load_stmts' = Loaded(Line(WhileNoCond))
    /\ (pc = "loaded" /\ pc' = "idle") =>
          /\ errlog' = <<>> /\ ~crashed'
          /\ \A n \in 0..MaxInt :
                /\ Last(history) = Line(ForFull(n)) =>
                      /\ out' = CountedFrom0(n) \o << Shown(envs, "i") >>
                      /\ envs' = envs
                /\ Last(history) = Line(ForNoInit(n)) =>
                      /\ out' = CountedFrom0(n) \o << ToString(n) >>
                      /\ envs' = << WithBinding(envs[1], "i", Integer(n)) >>
                /\ Last(history) = Line(ForNoIncr(n)) =>
                      /\ out' = << Shown(envs, "i") >>
                      /\ envs' = envs
          /\ Last(history) = Line(ForNoCond) =>
                /\ out' = << Shown(envs, "i") >>
                /\ envs' = Bound(envs, "r", Integer(1))

C23_ForIsWhile == [][C23_Step]_vars

C23_Witness ==
    /\ pc = "idle"
    /\ Len(history) = 1 /\ Last(history) = Line(ForFull(MaxInt))
    /\ stmts_in = Loaded(Line(WhileFull(MaxInt)))
    /\ out = CountedFrom0(MaxInt) \o << "i" >>
    /\ envs = << NoFrame >>

-----------------------------------------------------------------------------
(* C24: a call with more arguments than parameters evaluates all the       *)
(* arguments but binds only the first #parameters of them; a call with     *)
(* fewer arguments binds only the first #arguments parameters and leaves   *)
(* the others unbound in the call frame; neither is a failure and the body *)
(* still executes.  Checked on the interpret steps of L_extra and L_fewer, *)
(* whose bodies print and return, and of L_extra_frame and L_fewer_frame,  *)
(* whose bodies fail and leave the call frame on the stack to look at.     *)
C24_Step ==
    /\ stmts_in' = L_extra =>
          /\ errlog' = <<>> /\ ~crashed'
          /\ out' = << "1", "2", "1" >>
          /\ envs' = Bound(envs, "r", Integer(1))
    /\ stmts_in' = L_extra_frame =>
          /\ out' = << "1", "2" >>
          /\ envs' = Append(envs, "a" :> Integer(1))
    /\ stmts_in' = L_fewer =>
          /\ errlog' = <<>> /\ ~crashed'
          /\ out' = << "1", Shown(envs, "b") >>
          /\ envs' = Bound(envs, "r", IF Innermost(envs, "b") = 0 THEN String("b")
                                      ELSE envs[Innermost(envs, "b")]["b"])
    /\ stmts_in' = L_fewer_frame =>
          /\ envs' = Append(envs, "a" :> Integer(1))

C24_ArityMismatch == [][C24_Step]_vars

C24_Witness ==
    /\ stmts_in = L_fewer
    /\ out = << "1", "b" >>
    /\ TopBinding("r") = Some(String("b"))
    /\ errlog = <<>>

-----------------------------------------------------------------------------
\* `or` stops at a truthy left operand, `and` at a falsy one
Stops(tt, l) == IF tt = "OR" THEN Truthy(l) ELSE ~Truthy(l)

(* C25: `a or b` is a's value, b not evaluated, when a is truthy, and b's  *)
(* value otherwise; `a and b` is a's value, b not evaluated, when a is     *)
(* falsy, and b's value otherwise; the side effects of b (an assignment,   *)
(* a call) happen only when b is evaluated; the result is the operand's    *)
(* own value, not a Boolean made of it.                                    *)
C25_ShortCircuit ==
    \A tt \in {"OR", "AND"}, l \in Operands :
        /\ \A r \in Operands :
              stmts_in = L_logical(tt, l, r) =>
                  /\ ~crashed /\ errlog = <<>>
                  /\ envs = << [t |-> IF Stops(tt, l) THEN String("unset") ELSE r,
                                r |-> IF Stops(tt, l) THEN l ELSE r] >>
        /\ stmts_in = L_logical_call(tt, l) =>
              /\ ~crashed /\ errlog = <<>>
              /\ out = (IF Stops(tt, l) THEN <<>> ELSE << "9" >>)
              /\ TopBinding("r") = Some(IF Stops(tt, l) THEN l ELSE Integer(2))

C25_Witness ==
    /\ stmts_in = L_logical("OR", Integer(0), String("a"))
    /\ envs = << [t |-> String("a"), r |-> String("a")] >>

-----------------------------------------------------------------------------
(* Parser::load on one line of up to MaxTokens tokens, well-formed or not, *)
(* a turn of the loop of parse being a step.                               *)

Vocabulary ==
    { <<"p", "r", "i", "n", "t">>, <<"v", "a", "r">>, <<"f", "u", "n">>,
      <<"w", "h", "i", "l", "e">>,
      <<"x">>, <<"1">>, <<"=">>, <<";">>, <<"(">>, <<")">>, <<"{">>, <<"}">>, <<",">> }

\* every line of 1..MaxTokens words
TokenLists == UNION { { Join(ws, 1) : ws \in [1..n -> Vocabulary] } : n \in 1..MaxTokens }

NextTokens ==
    \/ pc = "idle" /\ \E source \in TokenLists : ParserLoad(source)
    \/ ParseOne
    \/ ParserReturn

SpecTokens == Init /\ [][NextTokens]_vars

(* C26: parse terminates on every finite token list: each turn of its loop *)
(* consumes at least one token through a successful declaration or, on a   *)
(* failure, advances at least one token during synchronization, so current *)
(* strictly increases until the end of input and never exceeds the number  *)
(* of tokens.                                                              *)
C26_Step ==
    /\ parser'.current <= Len(parser'.scanner.tokens)
    /\ (pc = "parse" /\ pc' = "parse") => parser'.current > parser.current
    /\ pc' = "loaded" => parser'.current = Len(parser'.scanner.tokens)

C26_ParseTerminates == [][C26_Step]_vars

C26_Witness ==
    /\ pc = "parse"
    /\ parser.had_error
    /\ load_stmts = <<>>
    /\ 0 < parser.current /\ parser.current < Len(parser.scanner.tokens)

-----------------------------------------------------------------------------
(* C27: reading a variable that no frame binds is not a failure: it gives  *)
(* the String holding the variable's own name.  `print u; var r = u;` with *)
(* u never defined writes u and binds r to 'u'; the parameter q that       *)
(* `show()` leaves unbound reads as its name unless a frame below binds q. *)
C27_Step ==
    /\ stmts_in' = L_unbound =>
          /\ errlog' = <<>> /\ ~crashed'
          /\ out' = << "u" >>
          /\ envs' = Bound(envs, "r", String("u"))
    /\ stmts_in' = L_short =>
          /\ errlog' = <<>> /\ ~crashed'
          /\ envs' = envs
          /\ out' = << IF Innermost(envs, "q") = 0 THEN "q"
                       ELSE Display(envs[Innermost(envs, "q")]["q"]) >>

C27_UnboundIsItsName == [][C27_Step]_vars

C27_Witness ==
    /\ stmts_in = L_unbound
    /\ out = << "u" >>
    /\ TopBinding("r") = Some(String("u"))
    /\ TopBinding("q") = Some(Integer(8))

-----------------------------------------------------------------------------
(* Parser::load on one source with a `//` comment, or on the same source   *)
(* without it.                                                             *)

\* sources that parse with no error: `print 1 ;` `var x = 1 ;` `a ;` and
\* the empty one
Plain ==
    { PrintOf(w("1")),
      Join(w_var \o w("x") \o w("=") \o w("1") \o w(";"), 1),
      StatementOf(w("a")),
      <<>> }

\* `plain //body`
RemarkAfter(plain, body) == plain \o << "/", "/" >> \o body

\* `//body` and plain on the next line
RemarkBefore(plain, body) == << "/", "/" >> \o body \o << "\n" >> \o plain

\* `print 1 //body` and `;` on the next line
RemarkInside(body) ==
    Join(w_print \o w("1"), 1) \o << " ", "/", "/" >> \o body \o << "\n", ";" >>

Remarked ==
    { RemarkAfter(plain, body) : plain \in Plain, body \in Bodies }
    \cup { RemarkBefore(plain, body) : plain \in Plain, body \in Bodies }
    \cup { RemarkInside(body) : body \in Bodies }

NextRemark ==
    \/ pc = "idle" /\ \E source \in Plain \cup Remarked : ParserLoad(source)
    \/ ParseOne
    \/ ParserReturn

SpecRemark == Init /\ [][NextRemark]_vars

\* tokens i+1..j (from 0) of p hold a COMMENT token
CommentIn(p, i, j) ==
    \E k \in (i + 1)..j : p.scanner.tokens[k].token_type = "COMMENT"

\* the tokens of p hold exactly one COMMENT token, with literal body
OneComment(p, body) ==
    /\ Cardinality({ k \in 1..Len(p.scanner.tokens) :
                        p.scanner.tokens[k].token_type = "COMMENT" }) = 1
    /\ \E k \in 1..Len(p.scanner.tokens) :
          /\ p.scanner.tokens[k].token_type = "COMMENT"
          /\ p.scanner.tokens[k].literal = String(collect(body, 1))

(* C28: a `//` comment is appended to the token list as a COMMENT token    *)
(* and the parser never skips it: the turn of parse that meets the token   *)
(* records a diagnostic and sets had_error, so a source with a comment     *)
(* ends with had_error where the same source without it parses with none.  *)
C28_Step ==
    /\ \A body \in Bodies :
          (pc' = "parse" /\ Last(history') \in
                { RemarkAfter(plain, body) : plain \in Plain }
                \cup { RemarkBefore(plain, body) : plain \in Plain }
                \cup { RemarkInside(body) })
          => OneComment(parser', body)
    /\ (pc = "parse" /\ pc' = "parse"
            /\ CommentIn(parser, parser.current, parser'.current))
          => /\ parser'.had_error
             /\ ~parser.had_error
             /\ Len(reported') > Len(reported)
    /\ pc' = "loaded" =>
          /\ Last(history') \in Remarked =>
                parser'.had_error /\ reported' # <<>>
          /\ Last(history') \in Plain =>
                ~parser'.had_error /\ reported' = <<>>
    /\ \A plain \in Plain, body \in Bodies :
          (pc' = "loaded" /\ Last(history') = RemarkAfter(plain, body))
          => load_stmts' = Loaded(plain)

-----------------------------------------------------------------------------
\* e is built only from literals, grouping, unary and binary operators
RECURSIVE Pure(_)
Pure(e) ==
    CASE e.kind = "Literal" -> TRUE
      [] e.kind = "Grouping" -> Pure(e.e)
      [] e.kind = "Unary" -> Pure(e.right)
      [] e.kind = "Binary" -> Pure(e.left) /\ Pure(e.right)
      [] OTHER -> FALSE

\* the line interpreted is `var r = e;` for one such expression e
PureLine ==
    /\ Len(stmts_in) = 1
    /\ stmts_in[1].kind = "Var"
    /\ stmts_in[1].initializer.some
    /\ Pure(stmts_in[1].initializer.x)

(* C29: the two evaluators agree on every expression built only from       *)
(* literals, grouping, unary and binary operators: after `var r = e;` r is *)
(* bound to the value Expression::evaluate returns for e, or both fail.    *)
C29_EvaluatorsAgree ==
    PureLine =>
        LET r == Expression_evaluate(stmts_in[1].initializer.x, build)
        IN  IF r.kind = "ok"
            THEN ~crashed /\ errlog = <<>> /\ TopBinding("r") = Some(r.v)
            ELSE crashed \/ errlog # <<>>

-----------------------------------------------------------------------------
(* C30: names in a function body are resolved on the scope stack as it is  *)
(* at call time: rw, called from a block, reads and overwrites the block's *)
(* local y, and inner, called from outer, reads and overwrites outer's     *)
(* parameter z; the frames the line pushed are gone when it ends and no    *)
(* frame below them is touched.                                            *)
C30_Step ==
    /\ stmts_in' = L_caller_block =>
          /\ errlog' = <<>> /\ ~crashed'
          /\ out' = << "1", "5" >>
          /\ envs' = envs
    /\ stmts_in' = L_caller_param =>
          /\ errlog' = <<>> /\ ~crashed'
          /\ out' = << "1", "7" >>
          /\ envs' = envs

C30_DynamicResolution == [][C30_Step]_vars

C30_Witness ==
    /\ stmts_in = L_caller_param
    /\ out = << "1", "7" >>
    /\ nlines = 2
    /\ "rw" \in DOMAIN functions
    /\ \A i \in 1..Len(envs) : DOMAIN envs[i] \cap {"y", "z"} = {}

====
